---- MODULE Spec2Model ----
(***************************************************************************)
(* Model of the simulation and tax engine of src/src/utils/calculations.ts *)
(* (tax brackets, equity vesting, the two bisection searches and the       *)
(* monthly simulator).                                                     *)
(*                                                                         *)
(* Numbers.  The program computes in IEEE doubles.  The model computes in  *)
(* integers:                                                               *)
(*   - money is held in agorot, hundredths of a shekel (NIS(x) is x        *)
(*     shekels); a product or quotient that is not a whole number of       *)
(*     agorot is truncated downwards (MulDiv);                             *)
(*   - a tax rate is a whole number of percent, a monthly growth rate a    *)
(*     whole number of per mille;                                          *)
(*   - Infinity is the largest integer the checker represents;             *)
(*   - the candidates of findOptimalWithdrawal are the dyadic rationals    *)
(*     5000 + 495000 * k / 2^30, which doubles hold exactly; the model     *)
(*     holds k.                                                            *)
(* Each function call of the program is one record variable: the frame of  *)
(* that call (its arguments, its locals, its position); app is the         *)
(* mounted App component with its auto-save timer.                         *)
(***************************************************************************)
EXTENDS Integers, Sequences, FiniteSets, TLC

VARIABLES taxCall, vestCall, grossCall, simCall, optCall, monoCall, app, importCall

vars == <<taxCall, vestCall, grossCall, simCall, optCall, monoCall, app, importCall>>

\* A frame that is not in use in the specification at hand.
Idle == [pc |-> "idle"]

-----------------------------------------------------------------------------
(* Arithmetic *)

Min(a, b) == IF a <= b THEN a ELSE b

Max(a, b) == IF a >= b THEN a ELSE b

Abs(a) == IF a >= 0 THEN a ELSE 0 - a

\* Agorot in x shekels.
NIS(x) == x * 100

\* floor(x * n / d) for d > 0, computed without forming x * n.
MulDiv(x, n, d) == (x \div d) * n + ((x % d) * n) \div d

\* Math.round of a quotient n / d (d > 0): the nearest integer, halves upwards.
RoundDiv(n, d) == (2 * n + d) \div (2 * d)

\* Math.round of an amount of money, as a whole number of shekels.
RoundNIS(x) == (x + 50) \div 100

\* Quotient and remainder of x * n by d for 0 <= x < d and n >= 0, by doubling,
\* for operands whose product is too large to form.
RECURSIVE MulDivRem(_, _, _)
MulDivRem(x, n, d) ==
  IF n = 0 THEN [q |-> 0, r |-> 0]
  ELSE LET h == MulDivRem(x, n \div 2, d)
           r2 == 2 * h.r + (IF n % 2 = 1 THEN x ELSE 0)
       IN [q |-> 2 * h.q + r2 \div d, r |-> r2 % d]

\* Math.round(100 * num / den) for 0 <= num < den.
RoundPercent(num, den) == (MulDivRem(num, 200, den).q + 1) \div 2

\* x * rate for a rate given in percent.
Pct(x, rate) == MulDiv(x, rate, 100)

Infinity == 2147483647

-----------------------------------------------------------------------------
(* Bracket tables: upTo in agorot, rate in percent *)

SURTAX_THRESHOLD == 721560

FIXED_COEFFICIENT == 210

FIXED_PENSION_TAX == 15

NON_EMPLOYMENT_TAX_BRACKETS ==
  << [upTo |-> NIS(269280), rate |-> 31],
     [upTo |-> NIS(560280), rate |-> 35],
     [upTo |-> NIS(721560), rate |-> 47],
     [upTo |-> Infinity, rate |-> 52] >>

CAPITAL_GAINS_TAX_BRACKETS ==
  << [upTo |-> NIS(SURTAX_THRESHOLD), rate |-> 25],
     [upTo |-> NIS(5000000), rate |-> 28],
     [upTo |-> Infinity, rate |-> 30] >>

-----------------------------------------------------------------------------
(* calculateMarginalTax *)

\* The body of the loop over the brackets, from bracket k on.
RECURSIVE MarginalTaxLoop(_, _, _, _, _)
MarginalTaxLoop(brackets, k, remainingAmount, totalTax, currentThreshold) ==
  IF k > Len(brackets) THEN totalTax
  ELSE LET bracket == brackets[k] IN
    IF currentThreshold >= bracket.upTo
    THEN MarginalTaxLoop(brackets, k + 1, remainingAmount, totalTax, currentThreshold)
    ELSE LET taxableInBracket == Min(remainingAmount, bracket.upTo - currentThreshold) IN
      IF taxableInBracket <= 0
      THEN MarginalTaxLoop(brackets, k + 1, remainingAmount, totalTax, currentThreshold)
      ELSE IF remainingAmount - taxableInBracket <= 0
      THEN totalTax + Pct(taxableInBracket, bracket.rate)
      ELSE MarginalTaxLoop(brackets, k + 1,
                           remainingAmount - taxableInBracket,
                           totalTax + Pct(taxableInBracket, bracket.rate),
                           currentThreshold + taxableInBracket)

\* Mutant: the threshold is not advanced past the taxed slice.
RECURSIVE MarginalTaxLoopNoAdvance(_, _, _, _, _)
MarginalTaxLoopNoAdvance(brackets, k, remainingAmount, totalTax, currentThreshold) ==
  IF k > Len(brackets) THEN totalTax
  ELSE LET bracket == brackets[k] IN
    IF currentThreshold >= bracket.upTo
    THEN MarginalTaxLoopNoAdvance(brackets, k + 1, remainingAmount, totalTax, currentThreshold)
    ELSE LET taxableInBracket == Min(remainingAmount, bracket.upTo - currentThreshold) IN
      IF taxableInBracket <= 0
      THEN MarginalTaxLoopNoAdvance(brackets, k + 1, remainingAmount, totalTax, currentThreshold)
      ELSE IF remainingAmount - taxableInBracket <= 0
      THEN totalTax + Pct(taxableInBracket, bracket.rate)
      ELSE MarginalTaxLoopNoAdvance(brackets, k + 1,
                           remainingAmount - taxableInBracket,
                           totalTax + Pct(taxableInBracket, bracket.rate),
                           currentThreshold)

\* Mutant: "totalTax = ..." in place of "totalTax += ...": only the last taxed
\* slice is kept.
RECURSIVE MarginalTaxLoopAssign(_, _, _, _, _)
MarginalTaxLoopAssign(brackets, k, remainingAmount, totalTax, currentThreshold) ==
  IF k > Len(brackets) THEN totalTax
  ELSE LET bracket == brackets[k] IN
    IF currentThreshold >= bracket.upTo
    THEN MarginalTaxLoopAssign(brackets, k + 1, remainingAmount, totalTax, currentThreshold)
    ELSE LET taxableInBracket == Min(remainingAmount, bracket.upTo - currentThreshold) IN
      IF taxableInBracket <= 0
      THEN MarginalTaxLoopAssign(brackets, k + 1, remainingAmount, totalTax, currentThreshold)
      ELSE IF remainingAmount - taxableInBracket <= 0
      THEN Pct(taxableInBracket, bracket.rate)
      ELSE MarginalTaxLoopAssign(brackets, k + 1,
                           remainingAmount - taxableInBracket,
                           Pct(taxableInBracket, bracket.rate),
                           currentThreshold + taxableInBracket)

\* Mutant of calculateMarginalTax: currentThreshold is not advanced.
calculateMarginalTaxNoAdvance(amount, brackets, existingIncome) ==
  IF amount <= 0 THEN 0
  ELSE MarginalTaxLoopNoAdvance(brackets, 1, amount, 0, existingIncome)

\* Mutant of calculateMarginalTax: totalTax is assigned, not accumulated.
calculateMarginalTaxAssign(amount, brackets, existingIncome) ==
  IF amount <= 0 THEN 0
  ELSE MarginalTaxLoopAssign(brackets, 1, amount, 0, existingIncome)

calculateMarginalTax(amount, brackets, existingIncome) ==
  IF amount <= 0 THEN 0
  ELSE MarginalTaxLoop(brackets, 1, amount, 0, existingIncome)

\* calculateEffectiveTaxRate: the quotient tax / amount, kept as a fraction.
calculateEffectiveTaxRate(amount, brackets, existingIncome) ==
  IF amount <= 0 THEN [num |-> 0, den |-> 1]
  ELSE [num |-> calculateMarginalTax(amount, brackets, existingIncome), den |-> amount]

\* r1 <= r2 for two fractions with positive denominators.
RateLeq(r1, r2) == r1.num * r2.den <= r2.num * r1.den

-----------------------------------------------------------------------------
(* SpecTax: calculateMarginalTax and calculateEffectiveTaxRate on bounded   *)
(* inputs.  Amounts and ceilings are multiples of 10 shekels, so that every *)
(* product with a whole percentage is exact.                                *)

MaxBrackets == 3

MaxAmountSteps == 8

TaxStep == NIS(50)

Ceilings == {NIS(100), NIS(200), NIS(300), Infinity}

Rates == {0, 10, 30, 50}

\* The tables the type Array<{upTo, rate}> admits under the data model's
\* invariant: strictly ascending ceilings, the last one Infinity.
BracketTables ==
  { t \in UNION { [1..n -> [upTo : Ceilings, rate : Rates]] : n \in 1..MaxBrackets } :
      /\ t[Len(t)].upTo = Infinity
      /\ \A k \in 1..(Len(t) - 1) : t[k].upTo < t[k + 1].upTo }

TaxAmounts == { TaxStep * k : k \in (0 - 1)..MaxAmountSteps }

TaxExisting == { 0, NIS(100), NIS(150), NIS(250) }

OthersIdleTax ==
  /\ vestCall = Idle /\ grossCall = Idle /\ simCall = Idle
  /\ optCall = Idle /\ monoCall = Idle /\ app = Idle
  /\ importCall = Idle

InitTax ==
  /\ taxCall \in [pc : {"call"}, amount : TaxAmounts, brackets : BracketTables,
                  existingIncome : TaxExisting, tax : {0}, rate : {[num |-> 0, den |-> 1]}]
  /\ OthersIdleTax

\* One call of calculateMarginalTax and of calculateEffectiveTaxRate.
CallTax ==
  /\ taxCall.pc = "call"
  /\ taxCall' = [taxCall EXCEPT
        !.pc = "done",
        !.tax = calculateMarginalTax(taxCall.amount, taxCall.brackets, taxCall.existingIncome),
        !.rate = calculateEffectiveTaxRate(taxCall.amount, taxCall.brackets,
                                           taxCall.existingIncome)]
  /\ UNCHANGED <<vestCall, grossCall, simCall, optCall, monoCall, app, importCall>>

NextTax == CallTax

SpecTax == InitTax /\ [][NextTax]_vars

\* The ceiling of the bracket before bracket k (0 before the first).
PreviousCeiling(brackets, k) == IF k = 1 THEN 0 ELSE brackets[k - 1].upTo

\* Length of the overlap of [lo1, hi1) with [lo2, hi2).
Overlap(lo1, hi1, lo2, hi2) == Max(0, Min(hi1, hi2) - Max(lo1, lo2))

\* Sum over the brackets k..Len of rate * overlap of the taxed interval with
\* the bracket; with skip, brackets whose ceiling is <= existingIncome are left out.
RECURSIVE OverlapTax(_, _, _, _, _)
OverlapTax(brackets, k, amount, existingIncome, skip) ==
  IF k > Len(brackets) THEN 0
  ELSE (IF skip /\ brackets[k].upTo <= existingIncome THEN 0
        ELSE Pct(Overlap(existingIncome, existingIncome + amount,
                         PreviousCeiling(brackets, k), brackets[k].upTo),
                 brackets[k].rate))
       + OverlapTax(brackets, k + 1, amount, existingIncome, skip)

\* C5: calculateMarginalTax returns, for amount > 0, the sum over the brackets
\* of rate * overlap of [existingIncome, existingIncome + amount) with
\* [previousCeiling, upTo); brackets whose ceiling is <= existingIncome
\* contribute nothing; the result is 0 for amount <= 0.
C5_MarginalTaxIsOverlapSum ==
  taxCall.pc = "done" =>
    IF taxCall.amount <= 0 THEN taxCall.tax = 0
    ELSE /\ taxCall.tax = OverlapTax(taxCall.brackets, 1, taxCall.amount,
                                     taxCall.existingIncome, FALSE)
         /\ taxCall.tax = OverlapTax(taxCall.brackets, 1, taxCall.amount,
                                     taxCall.existingIncome, TRUE)

\* A call with existing income past the first ceiling whose amount spans
\* two further brackets, taxed at a positive amount.
C5_Witness ==
  /\ taxCall.pc = "done"
  /\ Len(taxCall.brackets) = 3
  /\ taxCall.existingIncome > taxCall.brackets[1].upTo
  /\ taxCall.existingIncome < taxCall.brackets[2].upTo
  /\ taxCall.existingIncome + taxCall.amount > taxCall.brackets[2].upTo
  /\ taxCall.brackets[1].rate > 0
  /\ taxCall.tax > 0

\* C6: for any table T and amounts 0 <= a <= b,
\* calculateMarginalTax(a, T) <= calculateMarginalTax(b, T).
C6_TaxMonotone ==
  (taxCall.pc = "done" /\ taxCall.existingIncome = 0) =>
    \A a \in TaxAmounts :
      (0 <= a /\ a <= taxCall.amount) =>
        calculateMarginalTax(a, taxCall.brackets, 0) <= taxCall.tax

\* A call whose amount reaches the top bracket of a three-bracket table, with
\* a smaller amount that is taxed strictly less.
C6_Witness ==
  /\ taxCall.pc = "done" /\ taxCall.existingIncome = 0
  /\ Len(taxCall.brackets) = 3
  /\ taxCall.amount > taxCall.brackets[2].upTo
  /\ \E a \in TaxAmounts :
       /\ 0 < a /\ a < taxCall.amount
       /\ calculateMarginalTax(a, taxCall.brackets, 0) < taxCall.tax

RatesNonDecreasing(brackets) ==
  \A k \in 1..(Len(brackets) - 1) : brackets[k].rate <= brackets[k + 1].rate

TopRate(brackets) == [num |-> brackets[Len(brackets)].rate, den |-> 100]

\* The effective rate of the finished call is at least that of every smaller
\* positive amount, and at most the top bracket's rate.
EffectiveRateOrdered ==
  /\ RateLeq(taxCall.rate, TopRate(taxCall.brackets))
  /\ \A a \in TaxAmounts :
       (0 < a /\ a <= taxCall.amount) =>
         RateLeq(calculateEffectiveTaxRate(a, taxCall.brackets, 0), taxCall.rate)

\* C7 as stated: for ANY table the effective rate is non-decreasing in x > 0
\* and never exceeds the top bracket's rate.
C7_Original ==
  (taxCall.pc = "done" /\ taxCall.existingIncome = 0 /\ taxCall.amount > 0) =>
    EffectiveRateOrdered

\* C7 amended: for any table whose rates are non-decreasing, the effective
\* rate is non-decreasing in x > 0 and never exceeds the top bracket's rate.
C7_EffectiveRateMonotone ==
  (/\ taxCall.pc = "done" /\ taxCall.existingIncome = 0 /\ taxCall.amount > 0
   /\ RatesNonDecreasing(taxCall.brackets)) =>
    EffectiveRateOrdered

\* A call on a table with strictly increasing rates whose amount reaches the
\* top bracket: the effective rate lies strictly between the first and the
\* top rate.
C7_Witness ==
  /\ taxCall.pc = "done" /\ taxCall.existingIncome = 0
  /\ Len(taxCall.brackets) = 3
  /\ taxCall.brackets[1].rate < taxCall.brackets[2].rate
  /\ taxCall.brackets[2].rate < taxCall.brackets[3].rate
  /\ taxCall.amount > taxCall.brackets[2].upTo
  /\ ~RateLeq(TopRate(taxCall.brackets), taxCall.rate)
  /\ ~RateLeq(taxCall.rate, [num |-> taxCall.brackets[1].rate, den |-> 100])

-----------------------------------------------------------------------------
(* getVestingAtDate *)

\* A Date, as far as the program reads it: getFullYear() and getMonth().
Date(y, mo) == [year |-> y, month |-> mo]

\* new Date(2026, m, 1)
DateOfMonth(m) == Date(2026 + m \div 12, m % 12)

RECURSIVE GCD(_, _)
GCD(a, b) == IF b = 0 THEN a ELSE GCD(b, a % b)

LCM(a, b) == (a \div GCD(a, b)) * b

\* Share counts are fractions: a VestingResult carries den, and every share
\* count in it is a whole number of 1/den shares.  den is the least common
\* multiple of the contracts' vesting periods in months, so that
\* (monthsDiff / totalMonths) * shares is exact.
RECURSIVE VestingDen(_, _)
VestingDen(contracts, k) ==
  IF k > Len(contracts) THEN 1
  ELSE LCM(contracts[k].periodYears * 12, VestingDen(contracts, k + 1))

monthsDiffOf(contract, targetDate) ==
  (targetDate.year - contract.startDate.year) * 12
    + (targetDate.month - contract.startDate.month)

\* Mutant: Math.min(contract.shares, ...) left out.
vestedOfNoCap(contract, targetDate, den) ==
  LET monthsDiff == monthsDiffOf(contract, targetDate)
      totalMonths == contract.periodYears * 12
  IN IF monthsDiff >= contract.cliffMonths
     THEN Max(0, monthsDiff * contract.shares * (den \div totalMonths))
     ELSE 0

\* Mutant: the cliff test is strict (monthsDiff > cliffMonths).
vestedOfStrictCliff(contract, targetDate, den) ==
  LET monthsDiff == monthsDiffOf(contract, targetDate)
      totalMonths == contract.periodYears * 12
  IN IF monthsDiff > contract.cliffMonths
     THEN Min(contract.shares * den,
              Max(0, monthsDiff * contract.shares * (den \div totalMonths)))
     ELSE 0

\* The local `vested` of one contract, in 1/den shares.
vestedOf(contract, targetDate, den) ==
  LET monthsDiff == monthsDiffOf(contract, targetDate)
      totalMonths == contract.periodYears * 12
  IN IF monthsDiff >= contract.cliffMonths
     THEN Min(contract.shares * den,
              Max(0, monthsDiff * contract.shares * (den \div totalMonths)))
     ELSE 0

RECURSIVE SumSeq(_, _)
SumSeq(f, k) == IF k > Len(f) THEN 0 ELSE f[k] + SumSeq(f, k + 1)

\* totalVested in 1/den shares; totalCost in 1/den of the strike's currency
\* unit; details rounded as the code rounds them; vested is the per-contract
\* local, kept for inspection.
getVestingAtDate(contracts, targetDate) ==
  LET den == VestingDen(contracts, 1)
      vested == [k \in 1..Len(contracts) |-> vestedOf(contracts[k], targetDate, den)]
      cost == [k \in 1..Len(contracts) |-> vested[k] * contracts[k].strike]
  IN [den |-> den,
      totalVested |-> SumSeq(vested, 1),
      totalCost |-> SumSeq(cost, 1),
      vested |-> vested,
      details |-> [k \in 1..Len(contracts) |->
                     [name |-> contracts[k].name,
                      vested |-> RoundDiv(vested[k], den),
                      cost |-> RoundDiv(cost[k], den)]]]

-----------------------------------------------------------------------------
(* SpecVest: getVestingAtDate as the target date advances month by month.  *)

MaxVestMonths == 30

VestShares == {0, 700, 1200}

VestStrikes == {5, 20}

VestPeriods == {1, 2}

VestCliffs == {0, 3, 15}

VestStarts == {Date(2026, 2), Date(2026, 11)}

VestContracts ==
  [name : {"grant"}, shares : VestShares, strike : VestStrikes, startDate : VestStarts,
   periodYears : VestPeriods, cliffMonths : VestCliffs]

\* Every single grant, and a few pairs of grants with different periods,
\* cliffs and start dates.
VestContractLists ==
  { <<c>> : c \in VestContracts } \cup
  { << [name |-> "a", shares |-> 1200, strike |-> 20, startDate |-> Date(2026, 2),
        periodYears |-> 1, cliffMonths |-> 0],
       [name |-> "b", shares |-> sh, strike |-> 5, startDate |-> Date(2026, 11),
        periodYears |-> 2, cliffMonths |-> cl] >> : sh \in VestShares, cl \in VestCliffs }
  \cup {<< >>}

VestFirstDate == Date(2025, 11)

AddMonth(d) == IF d.month = 11 THEN Date(d.year + 1, 0) ELSE Date(d.year, d.month + 1)

OthersIdleVest ==
  /\ taxCall = Idle /\ grossCall = Idle /\ simCall = Idle
  /\ optCall = Idle /\ monoCall = Idle /\ app = Idle
  /\ importCall = Idle

InitVest ==
  /\ \E cs \in VestContractLists :
       vestCall = [pc |-> "called", contracts |-> cs, targetDate |-> VestFirstDate,
                   steps |-> 0, result |-> getVestingAtDate(cs, VestFirstDate)]
  /\ OthersIdleVest

\* The caller evaluates the same contracts one calendar month later.
VestNextMonth ==
  /\ vestCall.pc = "called"
  /\ vestCall.steps < MaxVestMonths
  /\ LET d == AddMonth(vestCall.targetDate) IN
       vestCall' = [vestCall EXCEPT !.targetDate = d, !.steps = @ + 1,
                                    !.result = getVestingAtDate(vestCall.contracts, d)]
  /\ UNCHANGED <<taxCall, grossCall, simCall, optCall, monoCall, app, importCall>>

NextVest == VestNextMonth

SpecVest == InitVest /\ [][NextVest]_vars

\* Elapsed months of contract k at the frame's target date.
Elapsed(f, k) == monthsDiffOf(f.contracts[k], f.targetDate)

Contracts(f) == 1..Len(f.contracts)

FullShares(f, k) == f.contracts[k].shares * f.result.den

VestedWithinBounds ==
  \A k \in Contracts(vestCall) :
    /\ 0 <= vestCall.result.vested[k]
    /\ vestCall.result.vested[k] <= FullShares(vestCall, k)

\* C9 as stated: 0 <= vested <= shares at every date, and vested = shares
\* once elapsed months >= periodYears * 12.
C9_Original ==
  /\ VestedWithinBounds
  /\ \A k \in Contracts(vestCall) :
       Elapsed(vestCall, k) >= vestCall.contracts[k].periodYears * 12
         => vestCall.result.vested[k] = FullShares(vestCall, k)

\* C9 amended: 0 <= vested <= shares at every date, and vested = shares once
\* elapsed months >= periodYears * 12 and >= cliffMonths.
C9_VestingBounds ==
  /\ VestedWithinBounds
  /\ \A k \in Contracts(vestCall) :
       (/\ Elapsed(vestCall, k) >= vestCall.contracts[k].periodYears * 12
        /\ Elapsed(vestCall, k) >= vestCall.contracts[k].cliffMonths)
         => vestCall.result.vested[k] = FullShares(vestCall, k)

\* A grant observed after the end of its period (and of its cliff): it is
\* vested in full, and was observed before its start date on the way.
C9_Witness ==
  /\ Len(vestCall.contracts) = 1
  /\ vestCall.contracts[1].shares > 0
  /\ vestCall.contracts[1].cliffMonths = 3
  /\ Elapsed(vestCall, 1) > vestCall.contracts[1].periodYears * 12
  /\ vestCall.result.vested[1] = FullShares(vestCall, 1)

\* One step of the target date, seen from contract k, from the start date on.
VestStep(k) ==
  /\ vestCall'.targetDate # vestCall.targetDate
  /\ Elapsed(vestCall, k) >= 0

\* C10 as stated: from the start date on, vested strictly increases at every
\* step until the grant is fully vested, and is constant from then on.
C10_Original ==
  [][\A k \in Contracts(vestCall) :
       VestStep(k) =>
         IF vestCall.result.vested[k] < FullShares(vestCall, k)
         THEN vestCall'.result.vested[k] > vestCall.result.vested[k]
         ELSE vestCall'.result.vested[k] = vestCall.result.vested[k]]_vars

\* C10 amended: from the start date on, vested never decreases; it strictly
\* increases at every step that ends at or after the cliff until the grant is
\* fully vested, and is constant from then on.
C10_VestingMonotone ==
  [][\A k \in Contracts(vestCall) :
       VestStep(k) =>
         /\ vestCall'.result.vested[k] >= vestCall.result.vested[k]
         /\ IF vestCall.result.vested[k] < FullShares(vestCall, k)
            THEN (Elapsed(vestCall, k) + 1 >= vestCall.contracts[k].cliffMonths
                    => vestCall'.result.vested[k] > vestCall.result.vested[k])
            ELSE vestCall'.result.vested[k] = vestCall.result.vested[k]]_vars

\* A grant with a cliff of 3 months, two months after the cliff: it has left 0
\* and is not yet fully vested.
C10_Witness ==
  /\ Len(vestCall.contracts) = 1
  /\ vestCall.contracts[1].cliffMonths = 3
  /\ Elapsed(vestCall, 1) = 5
  /\ vestCall.result.vested[1] > 0
  /\ vestCall.result.vested[1] < FullShares(vestCall, 1)

-----------------------------------------------------------------------------
(* SpecVestDate: getVestingAtDate from the contracts as they are stored,    *)
(* with startDate a string "YYYY-MM-DD", on a host in a given time zone.    *)

\* A startDate string "YYYY-MM-DD": month is 1..12.
IsoDate(y, mo, d) == [year |-> y, month |-> mo, day |-> d]

\* The calendar month the string names, as a Date (month 0..11).
CalendarMonth(iso) == Date(iso.year, iso.month - 1)

\* const start = new Date(contract.startDate), read by getFullYear() and
\* getMonth().  A date-only string is midnight UTC of that day; the getters
\* read local time, which is UTC + offset minutes (|offset| < 24 h): west of
\* UTC it is still the evening of the day before.
ParseStartDate(iso, offset) ==
  IF offset < 0 /\ iso.day = 1
  THEN IF iso.month = 1 THEN Date(iso.year - 1, 11) ELSE Date(iso.year, iso.month - 2)
  ELSE CalendarMonth(iso)

\* The contracts as getVestingAtDate reads them on a host at the offset.
ParsedContracts(contracts, offset) ==
  [k \in 1..Len(contracts) |->
     [contracts[k] EXCEPT !.startDate = ParseStartDate(@, offset)]]

\* Minutes east of UTC: New York (winter), UTC, Jerusalem (winter).
TimeZoneOffsets == {0 - 300, 0, 120}

StoredStarts == {IsoDate(2024, 1, 1), IsoDate(2024, 1, 15), IsoDate(2024, 3, 31)}

StoredContracts ==
  [name : {"grant"}, shares : {700, 12000}, strike : {2}, startDate : StoredStarts,
   periodYears : {1, 2}, cliffMonths : {0, 6}]

StoredContractLists ==
  { <<c>> : c \in StoredContracts } \cup
  { << [name |-> "a", shares |-> 12000, strike |-> 2, startDate |-> IsoDate(2024, 1, 1),
        periodYears |-> 1, cliffMonths |-> 0],
       [name |-> "b", shares |-> 700, strike |-> 5, startDate |-> IsoDate(2024, 3, 31),
        periodYears |-> 2, cliffMonths |-> 6] >> }

StoredFirstDate == Date(2023, 10)

InitVestDate ==
  /\ \E cs \in StoredContractLists, offset \in TimeZoneOffsets :
       vestCall = [pc |-> "called", stored |-> cs, offset |-> offset,
                   contracts |-> ParsedContracts(cs, offset),
                   targetDate |-> StoredFirstDate, steps |-> 0,
                   result |-> getVestingAtDate(ParsedContracts(cs, offset),
                                               StoredFirstDate)]
  /\ OthersIdleVest

NextVestDate == VestNextMonth

SpecVestDate == InitVestDate /\ [][NextVestDate]_vars

\* Calendar month difference between the stored startDate and the target date.
CalendarElapsed(f, k) ==
  (f.targetDate.year - CalendarMonth(f.stored[k].startDate).year) * 12
    + (f.targetDate.month - CalendarMonth(f.stored[k].startDate).month)

\* min(shares, max(0, elapsed / (periodYears * 12) * shares)), in 1/den shares.
LinearFraction(contract, elapsed, den) ==
  Min(contract.shares * den,
      Max(0, elapsed * contract.shares * (den \div (contract.periodYears * 12))))

TestedGrant ==
  [name |-> "grant", shares |-> 12000, strike |-> 2, startDate |-> IsoDate(2024, 1, 1),
   periodYears |-> 1, cliffMonths |-> 0]

\* C11: per contract, with elapsed the calendar month difference between
\* startDate and the target date, vested is 0 if elapsed < cliffMonths and
\* else min(shares, max(0, elapsed / (periodYears * 12) * shares)); cost is
\* vested * strike; totalVested and totalCost are the sums over the
\* contracts; 12000 shares over 1 year with no cliff and strike 2 give
\* vested 3000 and cost 6000 three months after the start.
C11_Original ==
  /\ \A k \in Contracts(vestCall) :
       vestCall.result.vested[k] =
         IF CalendarElapsed(vestCall, k) < vestCall.stored[k].cliffMonths THEN 0
         ELSE LinearFraction(vestCall.stored[k], CalendarElapsed(vestCall, k),
                             vestCall.result.den)
  /\ vestCall.result.totalVested = SumSeq(vestCall.result.vested, 1)
  /\ vestCall.result.totalCost =
       SumSeq([k \in Contracts(vestCall) |->
                 vestCall.result.vested[k] * vestCall.stored[k].strike], 1)
  /\ (vestCall.stored = <<TestedGrant>> /\ vestCall.targetDate = Date(2024, 3))
       => /\ vestCall.result.totalVested = 3000 * vestCall.result.den
          /\ vestCall.result.totalCost = 6000 * vestCall.result.den

\* The tested grant three months after its start, on a host east of UTC.
C11_Witness ==
  /\ vestCall.stored = <<TestedGrant>>
  /\ vestCall.offset > 0
  /\ vestCall.targetDate = Date(2024, 3)
  /\ vestCall.result.totalVested = 3000 * vestCall.result.den
  /\ vestCall.result.totalCost = 6000 * vestCall.result.den

-----------------------------------------------------------------------------
(* calculateEarlyPensionWithdrawal and calculateGrossForDesiredNet *)

\* effectiveRate is a fraction, as in calculateEffectiveTaxRate.
calculateEarlyPensionWithdrawal(grossAmount, existingAnnualIncome) ==
  IF grossAmount <= 0
  THEN [netAmount |-> 0, taxPaid |-> 0, effectiveRate |-> [num |-> 0, den |-> 1]]
  ELSE LET taxPaid == calculateMarginalTax(grossAmount, NON_EMPLOYMENT_TAX_BRACKETS,
                                           existingAnnualIncome)
       IN [netAmount |-> grossAmount - taxPaid,
           taxPaid |-> taxPaid,
           effectiveRate |-> [num |-> taxPaid, den |-> grossAmount]]

GrossIterations == 50

\* The frame of a call of calculateGrossForDesiredNet on entry to its loop
\* (or already returned, for desiredNet <= 0).
GrossEnter(desiredNet, existingAnnualIncome) ==
  IF desiredNet <= 0
  THEN [pc |-> "returned", desiredNet |-> desiredNet,
        existingAnnualIncome |-> existingAnnualIncome,
        low |-> 0, high |-> 0, i |-> 0, ret |-> 0]
  ELSE [pc |-> "loop", desiredNet |-> desiredNet,
        existingAnnualIncome |-> existingAnnualIncome,
        low |-> desiredNet, high |-> desiredNet * 3, i |-> 0, ret |-> 0]

\* Mutant: the two branches of the comparison are exchanged.
GrossIterSwapped(f) ==
  IF f.i >= GrossIterations
  THEN [f EXCEPT !.pc = "returned", !.ret = (f.low + f.high) \div 2]
  ELSE LET mid == (f.low + f.high) \div 2
           result == calculateEarlyPensionWithdrawal(mid, f.existingAnnualIncome)
       IN IF Abs(result.netAmount - f.desiredNet) < NIS(1)
          THEN [f EXCEPT !.pc = "returned", !.ret = mid]
          ELSE IF result.netAmount < f.desiredNet
          THEN [f EXCEPT !.high = mid, !.i = @ + 1]
          ELSE [f EXCEPT !.low = mid, !.i = @ + 1]

\* Mutant: a tolerance of 1000 shekels instead of 1.
GrossIterCoarse(f) ==
  IF f.i >= GrossIterations
  THEN [f EXCEPT !.pc = "returned", !.ret = (f.low + f.high) \div 2]
  ELSE LET mid == (f.low + f.high) \div 2
           result == calculateEarlyPensionWithdrawal(mid, f.existingAnnualIncome)
       IN IF Abs(result.netAmount - f.desiredNet) < NIS(1000)
          THEN [f EXCEPT !.pc = "returned", !.ret = mid]
          ELSE IF result.netAmount < f.desiredNet
          THEN [f EXCEPT !.low = mid, !.i = @ + 1]
          ELSE [f EXCEPT !.high = mid, !.i = @ + 1]

\* One evaluation of the loop condition and, if it holds, of the loop body;
\* when the loop is over, the final return.
GrossIter(f) ==
  IF f.i >= GrossIterations
  THEN [f EXCEPT !.pc = "returned", !.ret = (f.low + f.high) \div 2]
  ELSE LET mid == (f.low + f.high) \div 2
           result == calculateEarlyPensionWithdrawal(mid, f.existingAnnualIncome)
       IN IF Abs(result.netAmount - f.desiredNet) < NIS(1)
          THEN [f EXCEPT !.pc = "returned", !.ret = mid]
          ELSE IF result.netAmount < f.desiredNet
          THEN [f EXCEPT !.low = mid, !.i = @ + 1]
          ELSE [f EXCEPT !.high = mid, !.i = @ + 1]

RECURSIVE GrossRun(_)
GrossRun(f) == IF f.pc = "returned" THEN f.ret ELSE GrossRun(GrossIter(f))

calculateGrossForDesiredNet(desiredNet, existingAnnualIncome) ==
  GrossRun(GrossEnter(desiredNet, existingAnnualIncome))

-----------------------------------------------------------------------------
(* SpecGross: calculateGrossForDesiredNet, one loop iteration per step, on  *)
(* the net of a gross amount (the round trip) or on a net given directly.   *)

MaxGrossSteps == 50

\* 17,321.37 shekels: the gross amounts k * GrossStride cross all four
\* brackets and are not multiples of a shekel.
GrossStride == 1732137

GrossInputs ==
  { GrossStride * k : k \in 1..MaxGrossSteps } \cup
  { NIS(1), NIS(269280), NIS(269281), NIS(560280), NIS(721560), NIS(721561), 7, 0 }

DirectNets == { 0, 0 - NIS(1000), 0 - 1, 5, NIS(69000), NIS(200000), NIS(270771) }

OthersIdleGross ==
  /\ taxCall = Idle /\ vestCall = Idle /\ simCall = Idle
  /\ optCall = Idle /\ monoCall = Idle /\ app = Idle
  /\ importCall = Idle

\* gross is the amount whose net is asked for, or -1 for a net given directly.
InitGross ==
  /\ \/ \E g \in GrossInputs :
          grossCall = [gross |-> g,
                       call |-> GrossEnter(calculateEarlyPensionWithdrawal(g, 0).netAmount, 0)]
     \/ \E d \in DirectNets :
          grossCall = [gross |-> 0 - 1, call |-> GrossEnter(d, 0)]
  /\ OthersIdleGross

GrossIterate ==
  /\ grossCall # Idle
  /\ grossCall.call.pc = "loop"
  /\ grossCall' = [grossCall EXCEPT !.call = GrossIter(grossCall.call)]
  /\ UNCHANGED <<taxCall, vestCall, simCall, optCall, monoCall, app, importCall>>

NextGross == GrossIterate

SpecGross == InitGross /\ [][NextGross]_vars

NetOf(g) == calculateEarlyPensionWithdrawal(g, 0).netAmount

\* C8: for every gross g > 0 and existingIncome = 0, calculateGrossForDesiredNet
\* applied to the net of g returns a gross g' whose net differs from the net
\* of g by less than 1 currency unit, so that g' is within 3 currency units of
\* g (the net rises by at least 0.48 per unit of gross); for desiredNet <= 0
\* it returns 0.
C8_GrossNetRoundTrip ==
  grossCall.call.pc = "returned" =>
    /\ grossCall.call.desiredNet <= 0 => grossCall.call.ret = 0
    /\ grossCall.gross > 0 =>
         /\ Abs(NetOf(grossCall.call.ret) - NetOf(grossCall.gross)) < NIS(1)
         /\ Abs(grossCall.call.ret - grossCall.gross) < NIS(3)

\* A round trip from a gross in the top bracket that took at least ten
\* bisection steps and returned through the tolerance test.
C8_Witness ==
  /\ grossCall.call.pc = "returned"
  /\ grossCall.gross > NIS(721560)
  /\ grossCall.call.i >= 10
  /\ grossCall.call.i < GrossIterations
  /\ grossCall.call.ret # grossCall.gross

-----------------------------------------------------------------------------
(* Helpers of runSimulation *)

\* Mutant: Math.round left out.
calculateNetEquityUnrounded(brutoIls) ==
  IF brutoIls <= 0 THEN 0
  ELSE brutoIls - calculateMarginalTax(brutoIls, CAPITAL_GAINS_TAX_BRACKETS, 0)

\* calculateNetEquity: Math.round(gross - tax), a whole number of shekels.
calculateNetEquity(brutoIls) ==
  IF brutoIls <= 0 THEN 0
  ELSE NIS(RoundNIS(brutoIls - calculateMarginalTax(brutoIls, CAPITAL_GAINS_TAX_BRACKETS, 0)))

\* The values a caller can pass for a number: a number, NaN, null, undefined.
Number(n) == [type |-> "number", value |-> n]

NotNumbers == { [type |-> "NaN"], [type |-> "null"], [type |-> "undefined"] }

\* calculateNetEquity on any such value: the guard
\* brutoIls === undefined || brutoIls === null || isNaN(brutoIls) first.
calculateNetEquityOfValue(brutoIls) ==
  IF brutoIls \in NotNumbers THEN 0 ELSE calculateNetEquity(brutoIls.value)

\* Mutant: the annuity of a balance is nothing.
calculatePensionAnnuityNone(pensionBalance) == 0

calculatePensionAnnuity(pensionBalance) ==
  IF pensionBalance <= 0 THEN 0 ELSE pensionBalance \div FIXED_COEFFICIENT

calculatePensionAnnuityTax(monthlyAnnuity) ==
  IF monthlyAnnuity <= 0 THEN 0 ELSE Pct(monthlyAnnuity, FIXED_PENSION_TAX)

calculateInvestmentWithdrawalTax(amount, annualIncome) ==
  IF amount <= 0 THEN 0
  ELSE Pct(amount, 25) + (IF annualIncome > NIS(SURTAX_THRESHOLD) THEN Pct(amount, 3) ELSE 0)

\* x * (1 + rate) for a rate in per mille.
Grow(x, perMille) == x + MulDiv(x, perMille, 1000)

\* (1 + q/1000)^n, scaled by 10^6.
RECURSIVE PowScaled(_, _)
PowScaled(q, n) == IF n = 0 THEN 1000000 ELSE Grow(PowScaled(q, n - 1), q)

MaxMonthlyRate == 20

\* Math.pow(1 + annualRate / 100, 1/12) - 1, in per mille: the monthly rate
\* whose twelfth power is nearest to the annual factor.  annualRate is held
\* in hundredths of a percent.
calculateMonthlyReturn(annualRate) ==
  LET target == 1000000 + annualRate * 100
      dist(q) == Abs(PowScaled(q, 12) - target)
  IN CHOOSE q \in 0..MaxMonthlyRate : \A r \in 0..MaxMonthlyRate : dist(q) <= dist(r)

\* Math.pow(1 + annualRate / 100, 1/12): the factor 1 + q/1000, held as q.
calculateMonthlyInflation(annualRate) == calculateMonthlyReturn(annualRate)

\* x * Math.pow(monthlyInflation, m), as m successive multiplications.
RECURSIVE Inflate(_, _, _)
Inflate(x, monthlyInflation, m) ==
  IF m = 0 THEN x ELSE Grow(Inflate(x, monthlyInflation, m - 1), monthlyInflation)

\* Math.pow(1 + PROPERTY_APPRECIATION_RATE, 1/12) - 1 = 0.0016516, in parts
\* per million.
PROPERTY_APPRECIATION_MONTHLY == 1652

\* x * 3.5, the fixed currency conversion, of a quantity of dollars held in
\* 1/den; the result is in agorot.
Fx(x, den) == MulDiv(x, 350, den)

-----------------------------------------------------------------------------
(* runSimulation *)

\* x * Math.pow(1 + PROPERTY_APPRECIATION_RATE, 1/12)
Appreciate(x) == x + MulDiv(x, PROPERTY_APPRECIATION_MONTHLY, 1000000)

CompanyIds(params) == { params.equityCompanies[k].id : k \in 1..Len(params.equityCompanies) }

\* The locals of the month last processed, before any month is.
NoMonth == [m |-> 0 - 1]

\* The frame of a call of runSimulation on entry to its loop; the call runs
\* by SimMonth until pc is "returned", and data is then its result.
SimEnter(targetWithdrawal, params) ==
  [pc |-> "loop",
   targetWithdrawal |-> targetWithdrawal,
   params |-> params,
   curInv |-> params.investmentInitialValue,
   curPen |-> params.pensionInitialValue,
   propValue |-> 0,
   monthlyAnnuity |-> 0,
   monthlyReturn |-> calculateMonthlyReturn(params.returnRate),
   monthlyInflation |-> calculateMonthlyInflation(params.inflationRate),
   monthlySavingsAfterProperty |-> params.propertyConfig.monthlySavings,
   totalMonthlyExpenses |->
     SumSeq(params.monthlyExpenses, 1) + SumSeq(params.yearlyExpenses, 1) \div 12,
   totalMonths |-> (params.endOfLifeAge - params.initialAge) * 12,
   exitedCompanies |-> {},
   previousVestedShares |-> [id \in CompanyIds(params) |-> 0],
   m |-> 0,
   data |-> << >>,
   month |-> NoMonth]

\* Mutant: the baseline is not moved when an increment is cashed out.
EquityCompanyStaleBaseline(s, company, date) ==
  IF Len(company.contracts) = 0 \/ company.sharePriceAtExit <= 0 THEN s
  ELSE
    LET vest == getVestingAtDate(company.contracts, date)
        currentVested == vest.totalVested
    IN IF /\ date.year = company.exitYear
          /\ date.month = 0
          /\ company.id \notin s.exitedCompanies
       THEN LET grossValue == Fx(currentVested * company.sharePriceAtExit, vest.den)
                                - Fx(vest.totalCost, vest.den)
            IN [s EXCEPT !.curInv = @ + calculateNetEquity(grossValue),
                         !.exitedCompanies = @ \cup {company.id},
                         !.previousVestedShares[company.id] = currentVested,
                         !.cashed[company.id] = currentVested,
                         !.eventLabels = Append(@, <<company.name, "Exit">>)]
       ELSE IF company.id \in s.exitedCompanies
       THEN LET newlyVested == currentVested - s.previousVestedShares[company.id]
            IN IF newlyVested > 0
               THEN LET shares == [k \in 1..Len(company.contracts) |->
                                     company.contracts[k].shares]
                        totalShares == SumSeq(shares, 1)
                        \* newlyVested * avgStrike, avgStrike = totalCost / currentVested
                        newlyCost == IF totalShares > 0
                                     THEN MulDiv(newlyVested, vest.totalCost, currentVested)
                                     ELSE 0
                        grossValue == Fx(newlyVested * company.sharePriceAtExit, vest.den)
                                        - Fx(newlyCost, vest.den)
                    IN [s EXCEPT !.curInv = @ + calculateNetEquity(grossValue),
                                 !.cashed[company.id] = newlyVested]
               ELSE s
       ELSE s

\* The body of the loop over the equity companies, for one company; s holds
\* curInv, exitedCompanies, previousVestedShares and eventLabels.  cashed
\* observes the share count (in 1/den) that enters grossValue this month.
EquityCompany(s, company, date) ==
  IF Len(company.contracts) = 0 \/ company.sharePriceAtExit <= 0 THEN s
  ELSE
    LET vest == getVestingAtDate(company.contracts, date)
        currentVested == vest.totalVested
    IN IF /\ date.year = company.exitYear
          /\ date.month = 0
          /\ company.id \notin s.exitedCompanies
       THEN LET grossValue == Fx(currentVested * company.sharePriceAtExit, vest.den)
                                - Fx(vest.totalCost, vest.den)
            IN [s EXCEPT !.curInv = @ + calculateNetEquity(grossValue),
                         !.exitedCompanies = @ \cup {company.id},
                         !.previousVestedShares[company.id] = currentVested,
                         !.cashed[company.id] = currentVested,
                         !.eventLabels = Append(@, <<company.name, "Exit">>)]
       ELSE IF company.id \in s.exitedCompanies
       THEN LET newlyVested == currentVested - s.previousVestedShares[company.id]
            IN IF newlyVested > 0
               THEN LET shares == [k \in 1..Len(company.contracts) |->
                                     company.contracts[k].shares]
                        totalShares == SumSeq(shares, 1)
                        \* newlyVested * avgStrike, avgStrike = totalCost / currentVested
                        newlyCost == IF totalShares > 0
                                     THEN MulDiv(newlyVested, vest.totalCost, currentVested)
                                     ELSE 0
                        grossValue == Fx(newlyVested * company.sharePriceAtExit, vest.den)
                                        - Fx(newlyCost, vest.den)
                    IN [s EXCEPT !.curInv = @ + calculateNetEquity(grossValue),
                                 !.previousVestedShares[company.id] = currentVested,
                                 !.cashed[company.id] = newlyVested]
               ELSE s
       ELSE s

RECURSIVE EquityLoop(_, _, _, _)
EquityLoop(s, companies, k, date) ==
  IF k > Len(companies) THEN s
  ELSE EquityLoop(EquityCompany(s, companies[k], date), companies, k + 1, date)

\* Mutant: the purchase is made in every January from the purchase year on.
PropertyStepEveryJanuary(s, propertyConfig, date) ==
  IF date.year >= propertyConfig.year
  THEN IF date.month = 0
       THEN [s EXCEPT !.curInv = @ - propertyConfig.price,
                      !.propValue = propertyConfig.price,
                      !.eventLabels = Append(@, <<"property purchase">>)]
       ELSE [s EXCEPT !.propValue = Appreciate(@)]
  ELSE s

\* "Handle property": s holds curInv, propValue and eventLabels.
PropertyStep(s, propertyConfig, date) ==
  IF date.year >= propertyConfig.year
  THEN IF date.year = propertyConfig.year /\ date.month = 0
       THEN [s EXCEPT !.curInv = @ - propertyConfig.price,
                      !.propValue = propertyConfig.price,
                      !.eventLabels = Append(@, <<"property purchase">>)]
       ELSE [s EXCEPT !.propValue = Appreciate(@)]
  ELSE s

\* Mutant: on half time the expenses are recorded as drawn from the investments.
WorkingPhaseDrawing(f, s, monthlyExpenseBase) ==
  LET full == f.m < f.params.transitionToHalfWorkYear * 12
      income == IF full THEN f.params.budgetSummary.totalIncomeNet ELSE monthlyExpenseBase
      monthlyOut == monthlyExpenseBase
  IN [s EXCEPT
       !.income = income,
       !.source = IF full THEN <<"full salary">> ELSE <<"half time">>,
       !.curPen = Grow(s.curPen, f.monthlyReturn)
                    + (IF full THEN f.params.budgetSummary.totalPensionInflow \div 12
                       ELSE f.params.budgetSummary.totalPensionInflow \div 24),
       !.curInv = Grow(s.curInv, f.monthlyReturn) + income - monthlyOut,
       !.withdrawalFromInvestments = IF full THEN 0 ELSE monthlyOut,
       !.monthlyOut = monthlyOut,
       !.monthlySavings = income - monthlyOut]

\* The working phase (yearsPassed < stopWorkYear); s holds the month's locals.
WorkingPhase(f, s, monthlyExpenseBase) ==
  LET full == f.m < f.params.transitionToHalfWorkYear * 12
      income == IF full THEN f.params.budgetSummary.totalIncomeNet ELSE monthlyExpenseBase
      monthlyOut == monthlyExpenseBase
  IN [s EXCEPT
       !.income = income,
       !.source = IF full THEN <<"full salary">> ELSE <<"half time">>,
       !.curPen = Grow(s.curPen, f.monthlyReturn)
                    + (IF full THEN f.params.budgetSummary.totalPensionInflow \div 12
                       ELSE f.params.budgetSummary.totalPensionInflow \div 24),
       !.curInv = Grow(s.curInv, f.monthlyReturn) + income - monthlyOut,
       !.monthlyOut = monthlyOut,
       !.monthlySavings = income - monthlyOut]

\* Mutant: the pension is debited by the shortfall itself, not by its gross.
EarlyFromPensionNet(s, desiredWithdrawal, curPen, withdrawalFromInvestments, monthlyGross) ==
  [s EXCEPT
    !.withdrawalFromInvestments = withdrawalFromInvestments,
    !.curInv = 0,
    !.withdrawalFromPension = desiredWithdrawal - withdrawalFromInvestments,
    !.curPen = curPen - (desiredWithdrawal - withdrawalFromInvestments),
    !.taxPaid = calculateInvestmentWithdrawalTax(withdrawalFromInvestments,
                                                 desiredWithdrawal * 12),
    !.source = <<"capital + pension", 0>>,
    !.income = 0,
    !.monthlyOut = desiredWithdrawal,
    !.monthlySavings = 0 - desiredWithdrawal]

\* The else branch of "if (curInv >= desiredWithdrawal)": the investments are
\* emptied and the shortfall is taken from the pension, grossed up by
\* calculateGrossForDesiredNet; monthlyGross is annualGrossFromPension / 12.
EarlyFromPension(s, desiredWithdrawal, curPen, withdrawalFromInvestments, monthlyGross) ==
  LET monthlyGrossFromPension == monthlyGross
      invTax == calculateInvestmentWithdrawalTax(withdrawalFromInvestments,
                                                 desiredWithdrawal * 12)
      pensionTaxResult ==
        calculateEarlyPensionWithdrawal(monthlyGrossFromPension * 12, 0)
      pensionTaxMonthly == pensionTaxResult.taxPaid \div 12
      effectiveRate == RoundPercent(pensionTaxResult.effectiveRate.num,
                                    pensionTaxResult.effectiveRate.den)
  IN [s EXCEPT
       !.withdrawalFromInvestments = withdrawalFromInvestments,
       !.curInv = 0,
       !.withdrawalFromPension = monthlyGrossFromPension,
       !.curPen = curPen - monthlyGrossFromPension,
       !.taxPaid = invTax + pensionTaxMonthly,
       !.source = <<"capital + pension", effectiveRate>>,
       !.income = 0,
       !.monthlyOut = desiredWithdrawal,
       !.monthlySavings = 0 - desiredWithdrawal]

\* Retirement before age 60: investments first, the pension for the shortfall.
EarlyRetirement(f, s, desiredWithdrawal) ==
  LET curInv == Grow(s.curInv, f.monthlyReturn)
      curPen == Grow(s.curPen, f.monthlyReturn)
      annualWithdrawal == desiredWithdrawal * 12
  IN IF curInv >= desiredWithdrawal
     THEN [s EXCEPT
            !.withdrawalFromInvestments = desiredWithdrawal,
            !.taxPaid = calculateInvestmentWithdrawalTax(desiredWithdrawal, annualWithdrawal),
            !.curInv = curInv - desiredWithdrawal,
            !.curPen = curPen,
            !.source = <<"investments">>,
            !.income = 0,
            !.monthlyOut = desiredWithdrawal,
            !.monthlySavings = 0 - desiredWithdrawal]
     ELSE EarlyFromPension(
            s, desiredWithdrawal, curPen, Max(0, curInv),
            calculateGrossForDesiredNet((desiredWithdrawal - Max(0, curInv)) * 12, 0) \div 12)

\* Retirement from age 60: conversion to an annuity, then the annuity and
\* the investments.
AnnuityRetirement(f, s, desiredWithdrawal) ==
  LET convert == s.curPen > 0 /\ s.monthlyAnnuity = 0
      grossAnnuity == calculatePensionAnnuity(s.curPen)
      converted == IF convert
                   THEN grossAnnuity - calculatePensionAnnuityTax(grossAnnuity)
                   ELSE s.monthlyAnnuity
      curPen == IF convert THEN 0 ELSE s.curPen
      eventLabels == IF convert THEN Append(s.eventLabels, <<"pension conversion">>)
                     ELSE s.eventLabels
      monthlyAnnuity == IF f.m > 0 THEN Grow(converted, f.monthlyInflation) ELSE converted
      curInv == Grow(s.curInv, f.monthlyReturn)
  IN IF desiredWithdrawal <= monthlyAnnuity
     THEN [s EXCEPT
            !.curPen = curPen, !.eventLabels = eventLabels,
            !.monthlyAnnuity = monthlyAnnuity,
            !.currentPensionAnnuity = monthlyAnnuity,
            !.income = monthlyAnnuity,
            !.withdrawalFromPension = monthlyAnnuity,
            !.withdrawalFromInvestments = 0,
            !.taxPaid = MulDiv(monthlyAnnuity, FIXED_PENSION_TAX, 100 - FIXED_PENSION_TAX),
            !.source = <<"annuity">>,
            !.curInv = curInv + (monthlyAnnuity - desiredWithdrawal),
            !.monthlyOut = desiredWithdrawal,
            !.monthlySavings = monthlyAnnuity - desiredWithdrawal]
     ELSE LET gapNeeded == desiredWithdrawal - monthlyAnnuity
              annuityGross == MulDiv(monthlyAnnuity, 100, 100 - FIXED_PENSION_TAX)
              annuityTaxPaid == Pct(annuityGross, FIXED_PENSION_TAX)
              invTax == calculateInvestmentWithdrawalTax(gapNeeded,
                                                         (monthlyAnnuity + gapNeeded) * 12)
          IN [s EXCEPT
               !.curPen = curPen, !.eventLabels = eventLabels,
               !.monthlyAnnuity = monthlyAnnuity,
               !.currentPensionAnnuity = monthlyAnnuity,
               !.withdrawalFromPension = monthlyAnnuity,
               !.withdrawalFromInvestments = gapNeeded,
               !.taxPaid = annuityTaxPaid + invTax,
               !.curInv = curInv - gapNeeded,
               !.income = monthlyAnnuity,
               !.source = <<"annuity + investments">>,
               !.monthlyOut = desiredWithdrawal,
               !.monthlySavings = monthlyAnnuity - desiredWithdrawal]

\* Mutant: the clamp Math.max(0, ...) left out.
liquidWealthUnclamped(curInv, curPen) == curInv + curPen

\* const liquidWealth = Math.max(0, curInv + curPen)
liquidWealthOf(curInv, curPen) == Max(0, curInv + curPen)

\* The snapshot pushed for a processed month; amounts rounded to shekels,
\* fullAge in tenths of a year.
Snapshot(f, s, date, liquidWealth) ==
  [index |-> f.m,
   label |-> <<date.month + 1, date.year>>,
   fullAge |-> f.params.initialAge * 10 + RoundDiv(f.m * 10, 12),
   totalLegacy |-> RoundNIS(liquidWealth + s.propValue),
   liquidWealth |-> RoundNIS(liquidWealth),
   investments |-> RoundNIS(Max(0, s.curInv)),
   pension |-> RoundNIS(Max(0, s.curPen)),
   property |-> RoundNIS(s.propValue),
   monthlyOutflow |-> RoundNIS(s.monthlyOut),
   monthlySavings |-> RoundNIS(s.monthlySavings),
   currentIncome |-> RoundNIS(s.income),
   incomeSource |-> s.source,
   earlyTaxPenalty |-> RoundNIS(s.taxPaid),
   event |-> s.eventLabels,
   withdrawalFromInvestments |-> RoundNIS(s.withdrawalFromInvestments),
   withdrawalFromPension |-> RoundNIS(s.withdrawalFromPension),
   pensionAnnuity |-> RoundNIS(s.currentPensionAnnuity),
   taxPaid |-> RoundNIS(s.taxPaid)]

\* The locals of an iteration as the loop body begins.
SimLocals(f) ==
  [curInv |-> f.curInv, curPen |-> f.curPen, propValue |-> f.propValue,
   monthlyAnnuity |-> f.monthlyAnnuity,
   exitedCompanies |-> f.exitedCompanies,
   previousVestedShares |-> f.previousVestedShares,
   cashed |-> [id \in CompanyIds(f.params) |-> 0],
   eventLabels |-> << >>, income |-> 0, source |-> <<"salary">>,
   taxPaid |-> 0, withdrawalFromInvestments |-> 0,
   withdrawalFromPension |-> 0, currentPensionAnnuity |-> 0,
   monthlyOut |-> 0, monthlySavings |-> 0]

\* Mutant: the household works in alternate years.
SimMonthValuesAlternate(f, date, ownsProp) ==
  [ownsProp |-> ownsProp,
   monthlyExpenseBase |->
     Inflate(IF ownsProp THEN f.totalMonthlyExpenses - f.monthlySavingsAfterProperty
             ELSE f.totalMonthlyExpenses,
             f.monthlyInflation, f.m),
   working |-> (f.m \div 12) % 2 = 0,
   desiredWithdrawal |-> Inflate(f.targetWithdrawal, f.monthlyInflation, f.m)]

\* ownsProp, monthlyExpenseBase, the test yearsPassed < stopWorkYear and
\* desiredWithdrawal for month f.m.
SimMonthValues(f, date, ownsProp) ==
  [ownsProp |-> ownsProp,
   monthlyExpenseBase |->
     Inflate(IF ownsProp THEN f.totalMonthlyExpenses - f.monthlySavingsAfterProperty
             ELSE f.totalMonthlyExpenses,
             f.monthlyInflation, f.m),
   working |-> f.m < f.params.stopWorkYear * 12,
   desiredWithdrawal |-> Inflate(f.targetWithdrawal, f.monthlyInflation, f.m)]

\* The end of the loop body: the snapshot pushed for a sampled month, and m++.
\* s0, s2 and s3 are the locals at the start of the body, after the equity
\* and property events, and after the phase of the month.
SimStore(f, date, s0, s2, s3, values, liquidWealth) ==
  [f EXCEPT
    !.curInv = s3.curInv,
    !.curPen = s3.curPen,
    !.propValue = s3.propValue,
    !.monthlyAnnuity = s3.monthlyAnnuity,
    !.exitedCompanies = s3.exitedCompanies,
    !.previousVestedShares = s3.previousVestedShares,
    !.data = IF f.m % 3 = 0 \/ f.m < 36
             THEN Append(@, Snapshot(f, s3, date, liquidWealth))
             ELSE @,
    !.month = [m |-> f.m, date |-> date, working |-> values.working,
               ownsProp |-> values.ownsProp,
               monthlyExpenseBase |-> values.monthlyExpenseBase,
               desiredWithdrawal |-> values.desiredWithdrawal,
               liquidWealth |-> liquidWealth,
               before |-> s0, afterEvents |-> s2, locals |-> s3],
    !.m = f.m + 1]

\* liquidWealth, from the balances the phase of the month leaves.
SimLiquidWealth(f, date, s0, s2, s3, values) ==
  SimStore(f, date, s0, s2, s3, values, liquidWealthOf(s3.curInv, s3.curPen))

\* Mutant: the age decides before the working phase is tested.
SimPhaseAgeFirst(f, date, s0, s2, values) ==
  SimLiquidWealth(f, date, s0, s2,
    IF f.params.initialAge * 12 + f.m >= 60 * 12
    THEN AnnuityRetirement(f, s2, values.desiredWithdrawal)
    ELSE IF values.working THEN WorkingPhase(f, s2, values.monthlyExpenseBase)
    ELSE EarlyRetirement(f, s2, values.desiredWithdrawal),
    values)

\* The phase of the month: working, retired before 60, or retired from 60.
SimPhase(f, date, s0, s2, values) ==
  SimLiquidWealth(f, date, s0, s2,
    IF values.working THEN WorkingPhase(f, s2, values.monthlyExpenseBase)
    ELSE IF f.params.initialAge * 12 + f.m < 60 * 12
    THEN EarlyRetirement(f, s2, values.desiredWithdrawal)
    ELSE AnnuityRetirement(f, s2, values.desiredWithdrawal),
    values)

\* The equity and property events of the month, then its phase.
SimEvents(f, date, s0) ==
  SimPhase(f, date, s0,
    PropertyStep(EquityLoop(s0, f.params.equityCompanies, 1, date),
                 f.params.propertyConfig, date),
    SimMonthValues(f, date, date.year >= f.params.propertyConfig.year))

\* Mutant: the loop is left once the balances are exhausted.
SimMonthUntilBroke(f) ==
  IF f.m > f.totalMonths \/ (f.m > 0 /\ liquidWealthOf(f.curInv, f.curPen) = 0)
  THEN [f EXCEPT !.pc = "returned"]
  ELSE SimEvents(f, DateOfMonth(f.m), SimLocals(f))

\* One evaluation of the loop condition m <= totalMonths and, if it holds, of
\* the loop body for month m; when the loop is over, the return.
SimMonth(f) ==
  IF f.m > f.totalMonths THEN [f EXCEPT !.pc = "returned"]
  ELSE SimEvents(f, DateOfMonth(f.m), SimLocals(f))

-----------------------------------------------------------------------------
(* Inputs of the simulation: SimulationParams records *)

\* One company with two grants; its exit falls in January 2027.
Company(exitYear, sharePriceAtExit) ==
  [id |-> "c1", name |-> "Acme",
   contracts |-> << [name |-> "a", shares |-> 120, strike |-> 20,
                     startDate |-> Date(2025, 6), periodYears |-> 2, cliffMonths |-> 12],
                    [name |-> "b", shares |-> 70, strike |-> 5,
                     startDate |-> Date(2026, 3), periodYears |-> 1, cliffMonths |-> 0] >>,
   exitYear |-> exitYear, sharePriceAtExit |-> sharePriceAtExit]

\* No purchase inside the simulated years.
NoProperty == [price |-> NIS(7000000), year |-> 2050, monthlySavings |-> NIS(8000)]

BaseParams ==
  [investmentInitialValue |-> NIS(1500000),
   pensionInitialValue |-> NIS(1500000),
   returnRate |-> 617,
   inflationRate |-> 0,
   transitionToHalfWorkYear |-> 1,
   stopWorkYear |-> 2,
   budgetSummary |-> [totalExpenseToday |-> NIS(30500),
                      totalIncomeNet |-> NIS(45000),
                      totalPensionInflow |-> NIS(14000)],
   monthlyExpenses |-> << NIS(18000), NIS(12000) >>,
   yearlyExpenses |-> << NIS(6000) >>,
   propertyConfig |-> NoProperty,
   equityCompanies |-> << >>,
   initialAge |-> 57,
   endOfLifeAge |-> 61]

\* A household on half time for three years, with no pension, that then
\* lives on its investments; its company exits in January 2030 (month 48).
EarlyRetiree ==
  [BaseParams EXCEPT !.investmentInitialValue = NIS(100000),
                     !.pensionInitialValue = 0,
                     !.returnRate = 0,
                     !.transitionToHalfWorkYear = 0,
                     !.stopWorkYear = 3,
                     !.budgetSummary.totalPensionInflow = 0,
                     !.equityCompanies = << Company(2030, 1000) >>,
                     !.initialAge = 50,
                     !.endOfLifeAge = 55]

\* Equity, a property bought in January 2028, and inflation.
RichHousehold ==
  [BaseParams EXCEPT !.equityCompanies = << Company(2027, 500) >>,
                     !.propertyConfig = [price |-> NIS(900000), year |-> 2028,
                                         monthlySavings |-> NIS(8000)],
                     !.inflationRate = 617]

\* Assets too small for the least candidate withdrawal.
LowAssets ==
  [BaseParams EXCEPT !.investmentInitialValue = NIS(100000),
                     !.pensionInitialValue = 0,
                     !.transitionToHalfWorkYear = 0,
                     !.stopWorkYear = 0,
                     !.endOfLifeAge = 59]

\* 3M of assets and a 7M property bought in January 2027.
PropertyBeyondMeans ==
  [BaseParams EXCEPT !.propertyConfig = [price |-> NIS(7000000), year |-> 2027,
                                         monthlySavings |-> NIS(8000)]]

\* A horizon of years years from the initial age 57.
Horizon(years) ==
  [BaseParams EXCEPT !.transitionToHalfWorkYear = 0,
                     !.stopWorkYear = 0,
                     !.endOfLifeAge = 57 + years]

\* No investments, a pension alone, no growth, and retirement at once at 50.
PensionOnly(pension) ==
  [BaseParams EXCEPT !.investmentInitialValue = 0,
                     !.pensionInitialValue = pension,
                     !.returnRate = 0,
                     !.transitionToHalfWorkYear = 0,
                     !.stopWorkYear = 0,
                     !.initialAge = 50,
                     !.endOfLifeAge = 54]

-----------------------------------------------------------------------------
(* findOptimalWithdrawal *)

\* let low = 5000, let high = 500000: the ends of the search interval.
OptLow == 5000
OptHigh == 500000
OptIterations == 30
\* The floor of the final liquid wealth.
OptFloor == 2000

\* Every value low, high, mid and bestVal take is
\* OptLow + (OptHigh - OptLow) * k / 2^OptIterations for a whole k, exactly;
\* the frame holds the k.  NoBest stands for the initial bestVal = 0.
OptScale == 2 ^ OptIterations
NoBest == 0 - 1

\* floor((c * k + half * 2^15) / 2^30) without leaving 32 bits.
MulShift(c, k, half) ==
  LET B == 2 ^ 15
      c1 == c \div B
      c0 == c % B
      k1 == k \div B
      k0 == k % B
  IN c1 * k1 + ((c1 * k0 + c0 * k1 + half + (c0 * k0) \div B) \div B)

\* Mutant: bestVal starts at low instead of 0.
OptValueBestFromLow(k) ==
  NIS(OptLow) + MulShift(NIS(OptHigh - OptLow), Max(k, 0), 0)

\* The amount a search value stands for, as runSimulation receives it.
OptValue(k) ==
  IF k = NoBest THEN 0 ELSE NIS(OptLow) + MulShift(NIS(OptHigh - OptLow), k, 0)

\* Math.round of a search value, in shekels.
OptRound(k) ==
  IF k = NoBest THEN 0 ELSE OptLow + MulShift(OptHigh - OptLow, k, 2 ^ 14)

\* data.some(p => p.liquidWealth <= 0 && p.index < totalMonths - 12)
Bankrupt(data, params) ==
  \E j \in 1..Len(data) :
    /\ data[j].liquidWealth <= 0
    /\ data[j].index < (params.endOfLifeAge - params.initialAge) * 12 - 12

\* data[data.length - 1].liquidWealth <= 2000 (the code's finalSolvent)
FinalAtFloor(data) == data[Len(data)].liquidWealth <= OptFloor

PassesSolvencyTest(data, params) == ~Bankrupt(data, params) /\ ~FinalAtFloor(data)

\* Mutant: bestVal starts at low.
OptEnterBestLow(params) ==
  [pc |-> "loop", params |-> params,
   low |-> 0, high |-> OptScale, bestVal |-> 0,
   i |-> 0, mid |-> OptScale \div 2,
   sim |-> SimEnter(OptValue(OptScale \div 2), params),
   val |-> 0, data |-> << >>]

\* The frame of a call on entry to the first iteration: mid is computed and
\* runSimulation(mid, params) is entered.
OptEnter(params) ==
  [pc |-> "loop", params |-> params,
   low |-> 0, high |-> OptScale, bestVal |-> NoBest,
   i |-> 0, mid |-> OptScale \div 2,
   sim |-> SimEnter(OptValue(OptScale \div 2), params),
   val |-> 0, data |-> << >>]

\* The rest of an iteration once runSimulation has returned, and the entry
\* to the next iteration or, after the last, to the final run.
OptAfterRun(f) ==
  LET data == f.sim.data
  IN IF Len(data) = 0
     THEN \* data[data.length - 1] is undefined: reading .liquidWealth throws
          [f EXCEPT !.pc = "threw"]
     ELSE LET pass == PassesSolvencyTest(data, f.params)
              bestVal == IF pass THEN f.mid ELSE f.bestVal
              low == IF pass THEN f.mid ELSE f.low
              high == IF pass THEN f.high ELSE f.mid
              mid == (low + high) \div 2
          IN IF f.i + 1 < OptIterations
             THEN [f EXCEPT !.bestVal = bestVal, !.low = low, !.high = high,
                            !.i = f.i + 1, !.mid = mid,
                            !.sim = SimEnter(OptValue(mid), f.params)]
             ELSE [f EXCEPT !.bestVal = bestVal, !.low = low, !.high = high,
                            !.i = f.i + 1, !.pc = "final",
                            !.sim = SimEnter(OptValue(bestVal), f.params)]

\* return { val: Math.round(bestVal), data: runSimulation(bestVal, params) }
OptFinish(f) ==
  [f EXCEPT !.pc = "returned", !.val = OptRound(f.bestVal), !.data = f.sim.data]

-----------------------------------------------------------------------------
(* SpecOpt: findOptimalWithdrawal on a set of households; a step is one     *)
(* month of the running simulation, the rest of a search iteration, or the  *)
(* return.                                                                  *)

MaxHorizonYears == 1

\* Horizons from endOfLifeAge = initialAge - 1 (no month is simulated).
\* Retired at once for one year on investments alone, with no growth: a
\* withdrawal w passes when investments - 13 * w, rounded, is above 2000.
OneYearOn(investments) ==
  [Horizon(1) EXCEPT !.investmentInitialValue = investments,
                     !.pensionInitialValue = 0,
                     !.returnRate = 0]

\* Every candidate passes; no candidate above 5000.04 passes.
Wealthy == OneYearOn(NIS(10000000))
Just5000 == OneYearOn(NIS(67001))

OptParamSets ==
  { BaseParams, EarlyRetiree, RichHousehold, LowAssets, PropertyBeyondMeans,
    Wealthy, Just5000 } \cup
  { Horizon(years) : years \in (0 - 1)..MaxHorizonYears }

OthersIdleOpt ==
  /\ taxCall = Idle /\ vestCall = Idle /\ grossCall = Idle
  /\ simCall = Idle /\ monoCall = Idle /\ app = Idle
  /\ importCall = Idle

InitOpt ==
  /\ \E params \in OptParamSets : optCall = OptEnter(params)
  /\ OthersIdleOpt

\* One evaluation of the loop condition of the running runSimulation.
OptSimulateMonth ==
  /\ optCall # Idle
  /\ optCall.pc \in {"loop", "final"}
  /\ optCall.sim.pc = "loop"
  /\ optCall' = [optCall EXCEPT !.sim = SimMonth(optCall.sim)]
  /\ UNCHANGED <<taxCall, vestCall, grossCall, simCall, monoCall, app, importCall>>

OptTestCandidate ==
  /\ optCall # Idle
  /\ optCall.pc = "loop"
  /\ optCall.sim.pc = "returned"
  /\ optCall' = OptAfterRun(optCall)
  /\ UNCHANGED <<taxCall, vestCall, grossCall, simCall, monoCall, app, importCall>>

OptReturn ==
  /\ optCall # Idle
  /\ optCall.pc = "final"
  /\ optCall.sim.pc = "returned"
  /\ optCall' = OptFinish(optCall)
  /\ UNCHANGED <<taxCall, vestCall, grossCall, simCall, monoCall, app, importCall>>

NextOpt == OptSimulateMonth \/ OptTestCandidate \/ OptReturn

SpecOpt == InitOpt /\ [][NextOpt]_vars

\* The months of a horizon that runSimulation samples into its trace.
SampledMonths(totalMonths) == { m \in 0..totalMonths : m % 3 = 0 \/ m < 36 }

OptTotalMonths == (optCall.params.endOfLifeAge - optCall.params.initialAge) * 12

\* The final run is under way or over, and it has processed a month.
InFinalRun ==
  /\ optCall.pc \in {"final", "returned"}
  /\ optCall.sim.month.m >= 0

\* C1: when findOptimalWithdrawal returns val > 0, the full monthly
\* simulation run at the chosen withdrawal is solvent: at no simulated month
\* with index < totalMonths - 12 is liquid wealth <= 0, and liquid wealth at
\* the final month is > 2000.  (Stated on every month the final run
\* processes, sampled into the trace or not.)
C1_Original ==
  (InFinalRun /\ OptRound(optCall.bestVal) > 0) =>
    /\ optCall.sim.month.m < OptTotalMonths - 12 =>
         RoundNIS(optCall.sim.month.liquidWealth) > 0
    /\ optCall.sim.month.m = OptTotalMonths =>
         RoundNIS(optCall.sim.month.liquidWealth) > OptFloor

\* A call that returned val > 0 with a trace that passes the solvency test
\* and ends just above the floor: the search closed in on the largest
\* passing withdrawal.
C1_Witness ==
  /\ optCall.pc = "returned"
  /\ optCall.val > 0
  /\ PassesSolvencyTest(optCall.data, optCall.params)
  /\ Len(optCall.data) > 36
  /\ optCall.data[Len(optCall.data)].index = OptTotalMonths
  /\ optCall.data[Len(optCall.data)].liquidWealth <= OptFloor + 5

\* The trace of a complete run: one snapshot for every sampled month of the
\* horizon, in order, up to the last sampled month.
CompleteTrace(data, totalMonths) ==
  /\ Len(data) = Cardinality(SampledMonths(totalMonths))
  /\ \A j \in 1..Len(data) : data[j].index \in SampledMonths(totalMonths)
  /\ \A j \in 1..(Len(data) - 1) : data[j].index < data[j + 1].index

OptResultValid ==
  /\ optCall.pc = "threw" => optCall.params.endOfLifeAge < optCall.params.initialAge
  /\ optCall.pc = "returned" =>
       /\ optCall.val >= 0
       /\ Len(optCall.data) >= 1
       /\ optCall.bestVal = NoBest =>
            /\ optCall.val = 0
            /\ optCall.sim.targetWithdrawal = 0
            /\ optCall.data = optCall.sim.data
            /\ CompleteTrace(optCall.data, OptTotalMonths)

\* A bound on the steps the call has still to take: the steps of the run
\* under way and of the runs to come.
OptStepsLeft ==
  LET perRun == Max(1, OptTotalMonths + 2)
      runsToCome == IF optCall.pc = "loop" THEN OptIterations - optCall.i
                    ELSE 0
      thisRun == IF optCall.pc \in {"loop", "final"}
                 THEN 1 + (IF optCall.sim.pc = "loop" THEN perRun - optCall.sim.m ELSE 0)
                 ELSE 0
  IN runsToCome * (perRun + 1) + thisRun

\* The guards of the three steps of NextOpt.
OptCanStep ==
  \/ optCall.pc \in {"loop", "final"} /\ optCall.sim.pc = "loop"
  \/ optCall.pc = "loop" /\ optCall.sim.pc = "returned"
  \/ optCall.pc = "final" /\ optCall.sim.pc = "returned"

\* C2: for every SimulationParams with endOfLifeAge >= initialAge,
\* findOptimalWithdrawal completes without throwing and returns val >= 0
\* together with a trace of at least one snapshot; when all 30 candidate
\* withdrawals fail the solvency test the result is val = 0 with the complete
\* trace of the run at target withdrawal 0.  (It completes: while it has not
\* returned it can take a step, and every step lowers OptStepsLeft.)
C2_CompletesWithTrace ==
  /\ []OptResultValid
  /\ [](optCall.pc \in {"loop", "final"} => OptCanStep)
  /\ [][OptStepsLeft' < OptStepsLeft]_vars

\* A call on which all 30 candidates failed and that returned val = 0 with
\* the trace of a horizon of more than three years.
C2_Witness ==
  /\ optCall.pc = "returned"
  /\ optCall.i = OptIterations
  /\ optCall.bestVal = NoBest
  /\ optCall.high = 1
  /\ optCall.val = 0
  /\ Len(optCall.data) > 36

\* C3 as stated: whenever findOptimalWithdrawal returns val = 0 because no
\* candidate passed, the trace it returns is itself non-bankrupt: no snapshot
\* with index < totalMonths - 12 has liquidWealth <= 0.
C3_Original ==
  (optCall.pc = "returned" /\ optCall.bestVal = NoBest) =>
    ~Bankrupt(optCall.data, optCall.params)

\* C3, amended: whenever findOptimalWithdrawal returns val = 0 because no
\* candidate passed, the trace it returns is the run at target withdrawal 0:
\* no snapshot has a negative liquidWealth or a withdrawal from the
\* investments, and a snapshot with liquidWealth = 0 is one in which the
\* investments and the pension are both shown as 0 or cancel out (the trace
\* may be bankrupt).
C3_ZeroRunTrace ==
  (optCall.pc = "returned" /\ optCall.bestVal = NoBest) =>
    \A j \in 1..Len(optCall.data) :
      /\ optCall.data[j].liquidWealth >= 0
      /\ optCall.data[j].withdrawalFromInvestments = 0
      /\ optCall.data[j].liquidWealth = 0 =>
           optCall.data[j].investments = 0 \/ optCall.data[j].pension = 0

\* The returned trace of the run at 0 is bankrupt: the property purchase of
\* January 2027 exceeds the liquid assets.
C3_Witness ==
  /\ optCall.pc = "returned"
  /\ optCall.bestVal = NoBest
  /\ Bankrupt(optCall.data, optCall.params)
  /\ \E j \in 1..Len(optCall.data) :
       /\ optCall.data[j].event = << <<"property purchase">> >>
       /\ optCall.data[j].liquidWealth = 0
       /\ optCall.data[j].pension > 0

-----------------------------------------------------------------------------
(* SpecMono: runSimulation on the same household at two target withdrawals *)
(* w1 <= w2, one after the other, a month at a step.                        *)

\* Target withdrawals in agorot: 0.21, 0.22 and 0.39 shekels, and whole
\* shekels below and above the largest passing withdrawals.
MonoWithdrawals ==
  { 0, 21, 22, 39, NIS(219), NIS(220), NIS(5000), NIS(46000), NIS(47000),
    NIS(83000), NIS(84000) }

MonoParamSets ==
  { BaseParams, RichHousehold, PensionOnly(NIS(2019)), PensionOnly(NIS(20000)) }

OthersIdleMono ==
  /\ taxCall = Idle /\ vestCall = Idle /\ grossCall = Idle
  /\ simCall = Idle /\ optCall = Idle /\ app = Idle
  /\ importCall = Idle

InitMono ==
  /\ \E params \in MonoParamSets :
       \E w1 \in MonoWithdrawals, w2 \in MonoWithdrawals :
         /\ w1 <= w2
         /\ monoCall = [pc |-> "first", params |-> params, w1 |-> w1, w2 |-> w2,
                        run1 |-> SimEnter(w1, params),
                        run2 |-> SimEnter(w2, params)]
  /\ OthersIdleMono

MonoFirstRunMonth ==
  /\ monoCall # Idle
  /\ monoCall.pc = "first"
  /\ LET run == SimMonth(monoCall.run1)
     IN monoCall' = [monoCall EXCEPT
                       !.run1 = run,
                       !.pc = IF run.pc = "returned" THEN "second" ELSE "first"]
  /\ UNCHANGED <<taxCall, vestCall, grossCall, simCall, optCall, app, importCall>>

MonoSecondRunMonth ==
  /\ monoCall # Idle
  /\ monoCall.pc = "second"
  /\ LET run == SimMonth(monoCall.run2)
     IN monoCall' = [monoCall EXCEPT
                       !.run2 = run,
                       !.pc = IF run.pc = "returned" THEN "done" ELSE "second"]
  /\ UNCHANGED <<taxCall, vestCall, grossCall, simCall, optCall, app, importCall>>

NextMono == MonoFirstRunMonth \/ MonoSecondRunMonth

SpecMono == InitMono /\ [][NextMono]_vars

MonoPasses(run) == PassesSolvencyTest(run.data, run.params)

\* C4 as stated: for any fixed params and any w1 <= w2, if
\* runSimulation(w2, params) passes the solvency test used by
\* findOptimalWithdrawal then runSimulation(w1, params) passes it too.
C4_Original ==
  (monoCall.pc = "done" /\ MonoPasses(monoCall.run2)) => MonoPasses(monoCall.run1)

\* One sixth of a shekel, in agorot, rounded up: twelve times it is twice the
\* tolerance of calculateGrossForDesiredNet.
MonoGap == 17

\* C4, amended: for any fixed params with a non-negative inflation rate and
\* any w1, w2 with w2 - w1 >= 1/6 currency unit, if runSimulation(w2, params)
\* passes the solvency test used by findOptimalWithdrawal then
\* runSimulation(w1, params) passes it too.
C4_MonotoneBeyondTolerance ==
  (/\ monoCall.pc = "done"
   /\ monoCall.w2 - monoCall.w1 >= MonoGap
   /\ MonoPasses(monoCall.run2)) => MonoPasses(monoCall.run1)

\* Two withdrawals a shekel apart that both pass, each month drawn from the
\* pension through calculateGrossForDesiredNet.
C4_Witness ==
  /\ monoCall.pc = "done"
  /\ monoCall.w1 > 0
  /\ monoCall.w2 - monoCall.w1 = NIS(1)
  /\ MonoPasses(monoCall.run2)
  /\ MonoPasses(monoCall.run1)
  /\ monoCall.run1.month.locals.withdrawalFromPension > monoCall.w1
  /\ monoCall.run2.month.locals.withdrawalFromPension
       > monoCall.run1.month.locals.withdrawalFromPension

-----------------------------------------------------------------------------
(* SpecEquity: calculateNetEquity on numbers in and around every bracket of *)
(* the capital-gains table, and on NaN, null and undefined.                 *)

MaxEquitySteps == 60

\* 137,531.37 shekels.
EquityStride == 13753137

EquityInputs ==
  { Number(EquityStride * k) : k \in (0 - 2)..MaxEquitySteps } \cup
  { Number(n) : n \in { 0, 1, 50, 67, NIS(1), 0 - NIS(500), NIS(100000), NIS(721560),
                        NIS(721561), NIS(721562), NIS(5000000), NIS(5000003) } } \cup
  NotNumbers

InitEquity ==
  /\ taxCall \in [pc : {"call"}, brutoIls : EquityInputs, ret : {0}]
  /\ OthersIdleTax

CallNetEquity ==
  /\ taxCall.pc = "call"
  /\ taxCall' = [taxCall EXCEPT !.pc = "done",
                                !.ret = calculateNetEquityOfValue(taxCall.brutoIls)]
  /\ UNCHANGED <<vestCall, grossCall, simCall, optCall, monoCall, app, importCall>>

NextEquity == CallNetEquity

SpecEquity == InitEquity /\ [][NextEquity]_vars

\* 25% up to 721,560, 28% up to 5,000,000, 30% above.
CapitalGainsTax(gross) ==
  Pct(Min(gross, NIS(721560)), 25)
    + Pct(Max(0, Min(gross, NIS(5000000)) - NIS(721560)), 28)
    + Pct(Max(0, gross - NIS(5000000)), 30)

\* C18: calculateNetEquity(gross) is round(gross - marginal tax on gross under
\* the capital-gains table 25% up to 721,560 / 28% up to 5,000,000 / 30%
\* above) for gross > 0, and 0 for gross <= 0, NaN, null or undefined; hence
\* calculateNetEquity(100000) = 75000 and the result is never negative.
C18_NetEquity ==
  taxCall.pc = "done" =>
    /\ taxCall.ret >= 0
    /\ taxCall.ret =
         IF taxCall.brutoIls \in NotNumbers THEN 0
         ELSE IF taxCall.brutoIls.value <= 0 THEN 0
         ELSE NIS(RoundNIS(taxCall.brutoIls.value - CapitalGainsTax(taxCall.brutoIls.value)))
    /\ taxCall.brutoIls = Number(NIS(100000)) => taxCall.ret = NIS(75000)

\* A gross above 5,000,000 taxed in all three brackets, whose net was rounded.
C18_Witness ==
  /\ taxCall.pc = "done"
  /\ taxCall.brutoIls \notin NotNumbers
  /\ taxCall.brutoIls.value > NIS(5000000)
  /\ taxCall.ret > 0
  /\ taxCall.ret # taxCall.brutoIls.value - CapitalGainsTax(taxCall.brutoIls.value)
  /\ taxCall.ret % 100 = 0

-----------------------------------------------------------------------------
(* SpecSim: one call of runSimulation, a month at a step, with a record of  *)
(* what the months processed so far did.                                    *)

\* Still working at 60: the household stops work at 61 (month 36).
WorkPast60 ==
  [BaseParams EXCEPT !.transitionToHalfWorkYear = 2,
                     !.stopWorkYear = 3,
                     !.initialAge = 58,
                     !.endOfLifeAge = 62]

\* Retired from the start at 58 with few investments: the pension is drawn
\* on before 60.
RetireAt58 ==
  [BaseParams EXCEPT !.investmentInitialValue = NIS(100000),
                     !.transitionToHalfWorkYear = 0,
                     !.stopWorkYear = 0,
                     !.initialAge = 58,
                     !.endOfLifeAge = 62]

\* The same with a pension that is exhausted before 60.
RetireAt58Poor == [RetireAt58 EXCEPT !.pensionInitialValue = NIS(200000)]

\* A property bought in the first month.
BuyAtStart ==
  [BaseParams EXCEPT !.propertyConfig = [price |-> NIS(500000), year |-> 2026,
                                         monthlySavings |-> NIS(8000)]]

\* Two companies: one exits in the first month, before any share has vested,
\* the other in January 2028, after all have.
TwoCompanies ==
  [BaseParams EXCEPT !.equityCompanies =
     << Company(2026, 800),
        [Company(2028, 300) EXCEPT !.id = "c2", !.name = "Beta"] >>]

\* Prices rising by 2.43% a year (0.2% a month), the return being 6.17%.
Inflation(params) == [params EXCEPT !.inflationRate = 243]

\* Retired and 60 from the first month: the pension is converted in month 0.
RetiredAt60 ==
  [BaseParams EXCEPT !.transitionToHalfWorkYear = 0,
                     !.stopWorkYear = 0,
                     !.initialAge = 60,
                     !.endOfLifeAge = 63]

\* A purchase year before the first simulated year, 2026.
PurchaseYear2025 ==
  [BaseParams EXCEPT !.propertyConfig = [price |-> NIS(900000), year |-> 2025,
                                         monthlySavings |-> NIS(8000)]]

SimParamSets ==
  { BaseParams, EarlyRetiree, RichHousehold, PropertyBeyondMeans, WorkPast60,
    RetireAt58, RetireAt58Poor, BuyAtStart, TwoCompanies, PensionOnly(NIS(20000)),
    Horizon(0), Inflation(WorkPast60), Inflation(RetiredAt60), Inflation(RetireAt58Poor),
    PurchaseYear2025 }

SimWithdrawals == { 0, NIS(5000), NIS(30000) }

OthersIdleSim ==
  /\ taxCall = Idle /\ vestCall = Idle /\ grossCall = Idle
  /\ optCall = Idle /\ monoCall = Idle /\ app = Idle
  /\ importCall = Idle

\* What the months processed so far did: the months processed, in order; the
\* months that converted the pension; the months that bought the property;
\* per company the number of lump-sum cash-outs and the shares cashed out in
\* all.
NoHistory(params) ==
  [processed |-> << >>,
   conversions |-> << >>,
   purchases |-> << >>,
   exits |-> [id \in CompanyIds(params) |-> 0],
   cashed |-> [id \in CompanyIds(params) |-> 0]]

Has(labels, label) == \E j \in 1..Len(labels) : labels[j] = label

CompanyOf(params, id) ==
  CHOOSE c \in { params.equityCompanies[k] : k \in 1..Len(params.equityCompanies) } :
    c.id = id

\* The frame after a step, with the history brought up to date from the
\* locals of the month the step processed (none when the step was the return).
SimObserved(hist, before, run) ==
  [run |-> run,
   hist |->
     IF run.m = before.m THEN hist
     ELSE [processed |-> Append(hist.processed, run.month.m),
           conversions |->
             IF Has(run.month.locals.eventLabels, <<"pension conversion">>)
             THEN Append(hist.conversions, run.month.m)
             ELSE hist.conversions,
           purchases |->
             IF Has(run.month.locals.eventLabels, <<"property purchase">>)
             THEN Append(hist.purchases, run.month.m)
             ELSE hist.purchases,
           exits |->
             [id \in DOMAIN hist.exits |->
                hist.exits[id] +
                  (IF Has(run.month.locals.eventLabels,
                          <<CompanyOf(run.params, id).name, "Exit">>)
                   THEN 1 ELSE 0)],
           cashed |->
             [id \in DOMAIN hist.cashed |->
                hist.cashed[id] + run.month.locals.cashed[id]]]]

InitSim ==
  /\ \E params \in SimParamSets, w \in SimWithdrawals :
       simCall = [run |-> SimEnter(w, params), hist |-> NoHistory(params)]
  /\ OthersIdleSim

SimStep ==
  /\ simCall # Idle
  /\ simCall.run.pc = "loop"
  /\ simCall' = SimObserved(simCall.hist, simCall.run, SimMonth(simCall.run))
  /\ UNCHANGED <<taxCall, vestCall, grossCall, optCall, monoCall, app, importCall>>

NextSim == SimStep

SpecSim == InitSim /\ [][NextSim]_vars

\* The step processed a month (it was not the final loop test).
ProcessedMonth == simCall'.run.m = simCall.run.m + 1

\* yearsPassed < stopWorkYear in the month just processed.
Working(run) == run.month.m < run.params.stopWorkYear * 12

\* curAge >= 60 in the month just processed.
Past60(run) == run.params.initialAge * 12 + run.month.m >= 60 * 12

\* C12: in no month with yearsPassed < stopWorkYear is the pension converted
\* or withdrawn from, whatever the age: its balance grows and
\* withdrawalFromPension is 0; the pension is converted in the first month
\* that has yearsPassed >= stopWorkYear, age >= 60 and a positive balance
\* (and in no other month), and that month ends with balance 0 and a
\* positive annuity.
C12_ConversionOnlyOnceRetired ==
  /\ [][(ProcessedMonth /\ Working(simCall'.run)) =>
          /\ simCall'.run.month.locals.withdrawalFromPension = 0
          /\ simCall'.run.month.locals.currentPensionAnnuity = 0
          /\ simCall'.run.monthlyAnnuity = 0
          /\ simCall'.hist.conversions = << >>
          /\ simCall'.run.curPen >= simCall.run.curPen
          /\ simCall.run.params.budgetSummary.totalPensionInflow > 0
               => simCall'.run.curPen > simCall.run.curPen]_vars
  /\ [][ProcessedMonth =>
          (Has(simCall'.run.month.locals.eventLabels, <<"pension conversion">>)
             <=> (/\ ~Working(simCall'.run)
                  /\ Past60(simCall'.run)
                  /\ simCall.run.curPen > 0
                  /\ simCall.hist.conversions = << >>))]_vars
  /\ [][(ProcessedMonth /\ simCall'.hist.conversions # simCall.hist.conversions) =>
          /\ simCall'.run.curPen = 0
          /\ simCall'.run.monthlyAnnuity > 0
          /\ simCall'.run.month.locals.currentPensionAnnuity > 0]_vars

\* The household that works until 61 has passed 60 at work with a pension
\* still growing, has converted in month 36, and is now beyond it.
C12_Witness ==
  /\ simCall.run.params = WorkPast60
  /\ simCall.hist.conversions = <<36>>
  /\ simCall.run.month.m > 36
  /\ simCall.run.curPen = 0
  /\ simCall.run.monthlyAnnuity > 0

\* C13: within one run the pension is converted at most once and for good:
\* from the conversion month on the pension balance is 0 in every month, the
\* annuity stays positive, and no later month converts again.
C13_ConversionIrreversible ==
  /\ [](Len(simCall.hist.conversions) <= 1)
  /\ [][simCall.hist.conversions # << >> =>
          /\ simCall'.hist.conversions = simCall.hist.conversions
          /\ simCall'.run.curPen = 0
          /\ simCall'.run.monthlyAnnuity > 0
          /\ simCall'.run.monthlyAnnuity >= simCall.run.monthlyAnnuity]_vars

\* A year after the conversion, with inflation: the annuity has grown and
\* the balance is still 0.
C13_Witness ==
  /\ simCall.run.params = RichHousehold
  /\ Len(simCall.hist.conversions) = 1
  /\ simCall.run.month.m >= simCall.hist.conversions[1] + 12
  /\ simCall.run.curPen = 0
  /\ simCall.run.monthlyInflation > 0
  /\ simCall.run.month.before.monthlyAnnuity > 0
  /\ simCall.run.monthlyAnnuity > simCall.run.month.before.monthlyAnnuity

\* The month of January of the company's exit year.
ExitMonth(company) == (company.exitYear - 2026) * 12

\* C14: for each company with at least one contract, a positive exit price
\* and an exit year inside the simulated years, the lump-sum cash-out happens
\* exactly once, in January of the exit year; at the end of every month from
\* then on the recorded baseline equals the vested count of that month, and so
\* does the number of shares cashed out in all: no share is cashed out twice.
C14_EquityCashedOnce ==
  \A k \in 1..Len(simCall.run.params.equityCompanies) :
    LET company == simCall.run.params.equityCompanies[k]
        m == simCall.run.month.m
    IN (/\ Len(company.contracts) > 0
        /\ company.sharePriceAtExit > 0
        /\ ExitMonth(company) >= 0
        /\ ExitMonth(company) <= simCall.run.totalMonths) =>
         IF m < ExitMonth(company)
         THEN /\ simCall.hist.exits[company.id] = 0
              /\ simCall.hist.cashed[company.id] = 0
         ELSE /\ simCall.hist.exits[company.id] = 1
              /\ simCall.run.previousVestedShares[company.id] =
                   getVestingAtDate(company.contracts, DateOfMonth(m)).totalVested
              /\ simCall.hist.cashed[company.id] =
                   getVestingAtDate(company.contracts, DateOfMonth(m)).totalVested

\* Both companies have exited: the first with nothing vested at its exit and
\* every share cashed out month by month since, the second all at once.
C14_Witness ==
  /\ simCall.run.params = TwoCompanies
  /\ simCall.run.month.m > 24
  /\ simCall.hist.exits = [id \in {"c1", "c2"} |-> 1]
  /\ simCall.hist.cashed["c1"] > 0
  /\ simCall.hist.cashed["c1"] = simCall.hist.cashed["c2"]
  /\ simCall.run.month.locals.cashed["c1"] = 0

\* The month of January of the purchase year.
PurchaseMonth(params) == (params.propertyConfig.year - 2026) * 12

PurchaseInRange(run) ==
  PurchaseMonth(run.params) >= 0 /\ PurchaseMonth(run.params) <= run.totalMonths

\* No share entered a grossValue in the month just processed.
NoEquityCashed(run) == \A id \in DOMAIN run.month.locals.cashed : run.month.locals.cashed[id] = 0

\* C15: for a purchase year inside the simulated years, the liquid balance is
\* debited by the price exactly once, in January of that year; the property
\* value is 0 in every earlier month, the price in the purchase month, and in
\* every later month the previous month's value times (1 + 0.02)^(1/12).
C15_PropertyBoughtOnce ==
  /\ [](PurchaseInRange(simCall.run) =>
          simCall.hist.purchases =
            IF simCall.run.month.m >= PurchaseMonth(simCall.run.params)
            THEN <<PurchaseMonth(simCall.run.params)>> ELSE << >>)
  /\ [][(ProcessedMonth /\ PurchaseInRange(simCall.run)) =>
          /\ simCall'.run.propValue =
               IF simCall'.run.month.m < PurchaseMonth(simCall.run.params) THEN 0
               ELSE IF simCall'.run.month.m = PurchaseMonth(simCall.run.params)
               THEN simCall.run.params.propertyConfig.price
               ELSE Appreciate(simCall.run.propValue)
          /\ NoEquityCashed(simCall'.run) =>
               simCall'.run.month.afterEvents.curInv - simCall.run.curInv =
                 IF simCall'.run.month.m = PurchaseMonth(simCall.run.params)
                 THEN 0 - simCall.run.params.propertyConfig.price ELSE 0]_vars

\* A year after the purchase of January 2027: one debit, and a value above
\* the price.
C15_Witness ==
  /\ simCall.run.params = PropertyBeyondMeans
  /\ simCall.hist.purchases = <<12>>
  /\ simCall.run.month.m >= 24
  /\ simCall.run.propValue > simCall.run.params.propertyConfig.price
  /\ simCall.run.propValue > simCall.run.month.before.propValue

\* C16: runSimulation processes every month m = 0 .. totalMonths whatever the
\* balances, and the trace it returns has exactly one snapshot for each m with
\* m < 36 or m mod 3 = 0 and none for another month, in strictly increasing
\* order of index from index 0; the last snapshot has index totalMonths.
C16_AllMonthsProcessedAndSampled ==
  simCall.run.pc = "returned" =>
    /\ simCall.hist.processed = [j \in 1..simCall.run.totalMonths + 1 |-> j - 1]
    /\ Len(simCall.run.data) = Cardinality(SampledMonths(simCall.run.totalMonths))
    /\ { simCall.run.data[j].index : j \in 1..Len(simCall.run.data) }
         = SampledMonths(simCall.run.totalMonths)
    /\ \A j \in 1..Len(simCall.run.data) - 1 :
         simCall.run.data[j].index < simCall.run.data[j + 1].index
    /\ simCall.run.data[1].index = 0
    /\ simCall.run.data[Len(simCall.run.data)].index = simCall.run.totalMonths

\* A run that returned after 48 months, a year of them with no liquid wealth
\* left, with 41 snapshots.
C16_Witness ==
  /\ simCall.run.pc = "returned"
  /\ simCall.run.totalMonths = 48
  /\ Len(simCall.run.data) = 41
  /\ Len(simCall.hist.processed) = 49
  /\ \E j \in 1..Len(simCall.run.data) :
       /\ simCall.run.data[j].index < 24
       /\ simCall.run.data[j].liquidWealth = 0

\* C17: in every snapshot of a month with yearsPassed < stopWorkYear,
\* withdrawalFromInvestments, withdrawalFromPension, pensionAnnuity and
\* taxPaid are all 0.
C17_NoWithdrawalWhileWorking ==
  \A j \in 1..Len(simCall.run.data) :
    simCall.run.data[j].index < simCall.run.params.stopWorkYear * 12 =>
      /\ simCall.run.data[j].withdrawalFromInvestments = 0
      /\ simCall.run.data[j].withdrawalFromPension = 0
      /\ simCall.run.data[j].pensionAnnuity = 0
      /\ simCall.run.data[j].taxPaid = 0

\* A returned trace with snapshots of full-time and half-time months, the
\* latter past 60, and, once retired, snapshots with a withdrawal and tax.
C17_Witness ==
  /\ simCall.run.pc = "returned"
  /\ simCall.run.params = WorkPast60
  /\ \E i, j, k \in 1..Len(simCall.run.data) :
       /\ simCall.run.data[i].incomeSource = <<"full salary">>
       /\ simCall.run.data[j].incomeSource = <<"half time">>
       /\ simCall.run.data[j].withdrawalFromPension = 0
       /\ simCall.run.data[k].index >= simCall.run.params.stopWorkYear * 12
       /\ simCall.run.data[k].withdrawalFromInvestments > 0
       /\ simCall.run.data[k].taxPaid > 0

-----------------------------------------------------------------------------
(* The two bisection searches *)

\* 2^n
RECURSIVE Pow2(_)
Pow2(n) == IF n = 0 THEN 1 ELSE 2 * Pow2(n - 1)

\* The loop of calculateGrossForDesiredNet under SpecGross: at most 50
\* iterations, low <= high at each, and an iteration that does not return
\* halves high - low (to the agora).
GrossBisectionBounded ==
  /\ [](/\ grossCall.call.i <= GrossIterations
        /\ grossCall.call.low <= grossCall.call.high)
  /\ [][grossCall'.call.pc = "loop" =>
          /\ grossCall'.call.i = grossCall.call.i + 1
          /\ 2 * (grossCall'.call.high - grossCall'.call.low)
               \in { grossCall.call.high - grossCall.call.low + d : d \in {0 - 1, 0, 1} }]_vars

\* C19: both bisection searches terminate on every input within their fixed
\* iteration counts: findOptimalWithdrawal runs exactly 30 iterations, and at
\* every iteration low <= high with the width of the interval halved.  (The
\* loop of calculateGrossForDesiredNet is GrossBisectionBounded.)
C19_Original ==
  /\ optCall.pc # "threw"
  /\ optCall.i <= OptIterations
  /\ optCall.pc \in {"final", "returned"} <=> optCall.i = OptIterations
  /\ optCall.low <= optCall.high
  /\ (optCall.high - optCall.low) * Pow2(optCall.i) = OptScale

\* A search that returned after its 30 iterations, with passing and failing
\* candidates on the way, on an interval narrowed to 1 / 2^30 of its width.
C19_Witness ==
  /\ optCall.pc = "returned"
  /\ optCall.i = OptIterations
  /\ optCall.low > 0
  /\ optCall.high < OptScale
  /\ optCall.high - optCall.low = 1

-----------------------------------------------------------------------------
(* The debounced auto-save of App *)

\* Time is in milliseconds and advances by Tick; a timer runs when its delay
\* has elapsed, before time advances further.
SAVE_DEBOUNCE_MS == 2000

Tick == 500

MaxTime == 8000

MaxChanges == 4

\* saveTimeoutRef.current before the first setTimeout
null == 0

\* clearTimeout(id) on the timers of the page: a timer that already ran or
\* was cleared is not among them, and clearing it does nothing.
clearTimeoutNoop(timers, id) == timers

clearTimeout(timers, id) == { t \in timers : t.id # id }

\* setTimeout(() => saveState(), SAVE_DEBOUNCE_MS): the callback holds the
\* saveState of the render that set it, so it saves that render's state.
setTimeout(a, timers) ==
  [a EXCEPT !.timers = timers \cup {[id |-> a.nextId, due |-> a.now + SAVE_DEBOUNCE_MS,
                                     state |-> a.state]},
            !.saveTimeoutRef = a.nextId,
            !.nextId = a.nextId + 1]

\* The function the effect returns, run before the effect runs again and on
\* unmount.
EffectCleanup(a) ==
  IF a.saveTimeoutRef # null
  THEN [a EXCEPT !.timers = clearTimeout(a.timers, a.saveTimeoutRef)]
  ELSE a

\* The body of the effect.
EffectBody(a) ==
  IF a.saveTimeoutRef # null
  THEN setTimeout(a, clearTimeout(a.timers, a.saveTimeoutRef))
  ELSE setTimeout(a, a.timers)

\* App after its first render: the state is the loaded one (state 0), and the
\* effect has run once.  changedAt (history) holds the instant at which each
\* state was set, saved (history) the saves made.
Mounted ==
  EffectBody([pc |-> "mounted", now |-> 0, state |-> 0, showImportModal |-> FALSE,
              saveTimeoutRef |-> null, timers |-> {}, nextId |-> 1,
              saved |-> << >>, changedAt |-> <<0>>])

OthersIdleApp ==
  /\ taxCall = Idle /\ vestCall = Idle /\ grossCall = Idle
  /\ simCall = Idle /\ optCall = Idle /\ monoCall = Idle
  /\ importCall = Idle

\* Apart from a fresh page, a page on which other timers have been set before
\* App mounts, so that its timer ids are not 1, 2, ...
InitApp ==
  /\ app \in { [Mounted EXCEPT !.timers = {[t EXCEPT !.id = first] : t \in Mounted.timers},
                                !.saveTimeoutRef = first, !.nextId = first + 1]
               : first \in {1, 7} }
  /\ OthersIdleApp

\* A setter of a saved value is called with a new value: App renders again
\* with a new saveState, and the effect's cleanup and body run.
ChangeState ==
  /\ app.pc = "mounted"
  /\ app.state < MaxChanges
  /\ app' = EffectBody(EffectCleanup(
               [app EXCEPT !.state = app.state + 1,
                           !.changedAt = Append(app.changedAt, app.now)]))
  /\ UNCHANGED <<taxCall, vestCall, grossCall, simCall, optCall, monoCall, importCall>>

\* A change of state that is not saved (the import dialog): saveState is the
\* same function, so the effect does not run.
ToggleImportModal ==
  /\ app.pc = "mounted"
  /\ app' = [app EXCEPT !.showImportModal = ~app.showImportModal]
  /\ UNCHANGED <<taxCall, vestCall, grossCall, simCall, optCall, monoCall, importCall>>

\* A timer whose delay has elapsed runs its callback: saveState().
TimerFires ==
  /\ app.pc \in {"mounted", "unmounted"}
  /\ \E t \in app.timers :
       /\ t.due <= app.now
       /\ app' = [app EXCEPT !.timers = app.timers \ {t},
                             !.saved = Append(app.saved, [at |-> app.now, state |-> t.state])]
  /\ UNCHANGED <<taxCall, vestCall, grossCall, simCall, optCall, monoCall, importCall>>

TimePasses ==
  /\ app.pc \in {"mounted", "unmounted"}
  /\ app.now + Tick <= MaxTime
  /\ \A t \in app.timers : t.due > app.now
  /\ app' = [app EXCEPT !.now = app.now + Tick]
  /\ UNCHANGED <<taxCall, vestCall, grossCall, simCall, optCall, monoCall, importCall>>

Unmount ==
  /\ app.pc = "mounted"
  /\ app' = [EffectCleanup(app) EXCEPT !.pc = "unmounted"]
  /\ UNCHANGED <<taxCall, vestCall, grossCall, simCall, optCall, monoCall, importCall>>

NextApp == ChangeState \/ ToggleImportModal \/ TimerFires \/ TimePasses \/ Unmount

SpecApp == InitApp /\ [][NextApp]_vars

\* The instant at which state n was set (state 0: at the mount).
ChangedAt(n) == app.changedAt[n + 1]

\* The saves made of state n.
SavesOf(n) == { i \in 1..Len(app.saved) : app.saved[i].state = n }

\* C20: a save runs only when 2000 ms have elapsed since the most recent
\* change (the mount, before any change) with no change in between; changes
\* that each come less than 2000 ms after the previous one produce exactly one
\* save, 2000 ms after the last of them; at most one save timer is pending at
\* any time, and none once App is unmounted.
C20_Debounce ==
  /\ \A i \in 1..Len(app.saved) :
       /\ app.saved[i].at = ChangedAt(app.saved[i].state) + SAVE_DEBOUNCE_MS
       /\ \A n \in 0..app.state :
            n > app.saved[i].state => ChangedAt(n) >= app.saved[i].at
  /\ \A n \in 0..app.state : Cardinality(SavesOf(n)) <= 1
  /\ \A n \in 0..(app.state - 1) :
       ChangedAt(n + 1) < ChangedAt(n) + SAVE_DEBOUNCE_MS => SavesOf(n) = {}
  /\ app.pc = "mounted" /\ app.now > ChangedAt(app.state) + SAVE_DEBOUNCE_MS
       => Cardinality(SavesOf(app.state)) = 1
  /\ Cardinality(app.timers) <= 1
  /\ app.pc = "unmounted" => app.timers = {}

\* Three changes 500 ms apart and one save, of the last of them, 2000 ms
\* after it; a fourth change later, and App unmounted within 2000 ms of it:
\* its timer is cancelled, and 2000 ms after that change nothing more is saved.
C20_Witness ==
  /\ app.pc = "unmounted"
  /\ app.state = 4
  /\ \A n \in 0..2 : ChangedAt(n + 1) = ChangedAt(n) + Tick
  /\ app.saved = <<[at |-> ChangedAt(3) + SAVE_DEBOUNCE_MS, state |-> 3]>>
  /\ ChangedAt(4) > app.saved[1].at
  /\ app.now > ChangedAt(4) + SAVE_DEBOUNCE_MS

-----------------------------------------------------------------------------
(* Import of a saved file: importFromJson and the validators of storage.ts *)

EXPORT_VERSION == "1.0.0"

\* JavaScript values, as JSON.parse builds them (and NaN, which it never does).
undefined == [t |-> "undefined"]

JsonNull == [t |-> "null"]

NaN == [t |-> "NaN"]

JsonNumber(n) == [t |-> "number", v |-> n]

JsonString(str) == [t |-> "string", v |-> str]

JsonBoolean(b) == [t |-> "boolean", v |-> b]

JsonArray(items) == [t |-> "array", items |-> items]

JsonObject(fields) == [t |-> "object", fields |-> fields]

typeof(x) ==
  CASE x.t \in {"null", "array"} -> "object"
    [] x.t = "NaN" -> "number"
    [] OTHER -> x.t

isNaN(x) == x.t = "NaN"

\* !x
Not(x) ==
  CASE x.t \in {"undefined", "null", "NaN"} -> TRUE
    [] x.t = "number" -> x.v = 0
    [] x.t = "string" -> x.v = ""
    [] x.t = "boolean" -> ~x.v
    [] OTHER -> FALSE

\* !x || typeof x !== 'object'
NotAnObject(x) == Not(x) \/ typeof(x) # "object"

\* x[key] of a value that passed NotAnObject (an array has no such key)
Prop(x, key) ==
  IF x.t = "object" /\ key \in DOMAIN x.fields THEN x.fields[key] ELSE undefined

isArray(x) == x.t = "array"

\* str.trim()
trim(str) == IF str \in {" ", "  "} THEN "" ELSE str

\* typeof x !== 'string' || x.trim() === ''
NotAName(x) == typeof(x) # "string" \/ trim(x.v) = ""

\* typeof x !== 'number' || isNaN(x)
NotANumber(x) == typeof(x) # "number" \/ isNaN(x)

\* /^\d{4}-\d{2}-\d{2}$/.test(str), on the strings of the inputs
DateShaped(str) == str \in {"2024-01-01", "2023-06-15", "2023-13-45"}

\* An error message: its subject, the index interpolated in it, its text.
Err(subject, index, text) == [subject |-> subject, index |-> index, text |-> text]

\* if (cond) errors.push(error)
PushIf(cond, error) == IF cond THEN <<error>> ELSE << >>

\* items.forEach((item, i) => errors.push(...Validate(item, i)))
RECURSIVE ForEach(_, _, _)
ForEach(Validate(_, _), items, i) ==
  IF i > Len(items) THEN << >>
  ELSE Validate(items[i], i - 1) \o ForEach(Validate, items, i + 1)

validateAsset(asset, index) ==
  IF NotAnObject(asset) THEN <<Err("Asset", index, "Invalid object")>>
  ELSE PushIf(typeof(Prop(asset, "id")) # "number", Err("Asset", index, "id"))
       \o PushIf(NotAName(Prop(asset, "name")), Err("Asset", index, "name"))
       \o PushIf(NotANumber(Prop(asset, "value")), Err("Asset", index, "value"))
       \o PushIf(Prop(asset, "type") \notin {JsonString("pension"), JsonString("liquid"),
                                           JsonString("invest")},
                 Err("Asset", index, "type"))

validateExpense(expense, index, type) ==
  IF NotAnObject(expense) THEN <<Err(type, index, "Invalid object")>>
  ELSE PushIf(typeof(Prop(expense, "id")) # "number", Err(type, index, "id"))
       \o PushIf(NotAName(Prop(expense, "name")), Err(type, index, "name"))
       \o PushIf(NotANumber(Prop(expense, "amount")) \/ Prop(expense, "amount").v < 0,
                 Err(type, index, "amount"))

validateSalaryData(salary) ==
  IF NotAnObject(salary) THEN <<Err("Salary data", 0, "Invalid object")>>
  ELSE ForEach(LAMBDA field, i :
                 PushIf(NotANumber(Prop(salary, field)) \/ Prop(salary, field).v < 0,
                        Err("Salary data", 0, field)),
               <<"person1Gross", "person1Net", "person2Gross", "person2Net">>, 1)

validateEquityContract(contract, companyName, index) ==
  IF NotAnObject(contract) THEN <<Err(companyName, index, "Invalid object")>>
  ELSE PushIf(NotAName(Prop(contract, "name")), Err(companyName, index, "name"))
       \o PushIf(NotANumber(Prop(contract, "shares")) \/ Prop(contract, "shares").v < 0,
                 Err(companyName, index, "shares"))
       \o PushIf(NotANumber(Prop(contract, "strike")) \/ Prop(contract, "strike").v < 0,
                 Err(companyName, index, "strike"))
       \o PushIf(typeof(Prop(contract, "startDate")) # "string"
                   \/ ~DateShaped(Prop(contract, "startDate").v),
                 Err(companyName, index, "startDate"))
       \o PushIf(NotANumber(Prop(contract, "periodYears"))
                   \/ Prop(contract, "periodYears").v <= 0,
                 Err(companyName, index, "periodYears"))
       \o PushIf(NotANumber(Prop(contract, "cliffMonths"))
                   \/ Prop(contract, "cliffMonths").v < 0,
                 Err(companyName, index, "cliffMonths"))

\* c.name as string || `Company ${index}`
CompanyName(company, index) ==
  IF Not(Prop(company, "name")) THEN "Company"
  ELSE IF typeof(Prop(company, "name")) = "string" THEN Prop(company, "name").v
  ELSE "String(name)"

validateExitConfig(ec, index) ==
  PushIf(NotANumber(Prop(ec, "exitYear")), Err("Equity company", index, "exitConfig.exitYear"))
  \o PushIf(NotANumber(Prop(ec, "valuationAtExit")),
            Err("Equity company", index, "exitConfig.valuationAtExit"))
  \o PushIf(NotANumber(Prop(ec, "sharePriceAtExit")),
            Err("Equity company", index, "exitConfig.sharePriceAtExit"))

validateEquityCompany(company, index) ==
  IF NotAnObject(company) THEN <<Err("Equity company", index, "Invalid object")>>
  ELSE PushIf(NotAName(Prop(company, "id")), Err("Equity company", index, "id"))
       \o PushIf(NotAName(Prop(company, "name")), Err("Equity company", index, "name"))
       \o PushIf(NotAName(Prop(company, "ownerName")), Err("Equity company", index, "ownerName"))
       \o PushIf(Prop(company, "color") \notin
                   {JsonString(c) : c \in {"indigo", "purple", "emerald", "rose", "blue", "amber"}},
                 Err("Equity company", index, "color"))
       \o (IF ~isArray(Prop(company, "contracts"))
           THEN <<Err("Equity company", index, "contracts")>>
           ELSE ForEach(LAMBDA contract, i :
                          validateEquityContract(contract, CompanyName(company, index), i),
                        Prop(company, "contracts").items, 1))
       \o (IF NotAnObject(Prop(company, "exitConfig"))
           THEN <<Err("Equity company", index, "exitConfig")>>
           ELSE validateExitConfig(Prop(company, "exitConfig"), index))

validatePropertyPlan(plan) ==
  IF NotAnObject(plan) THEN <<Err("Property plan", 0, "Invalid object")>>
  ELSE PushIf(typeof(Prop(plan, "enabled")) # "boolean", Err("Property plan", 0, "enabled"))
       \o (IF NotAnObject(Prop(plan, "config"))
           THEN <<Err("Property plan", 0, "config")>>
           ELSE PushIf(NotANumber(Prop(Prop(plan, "config"), "price"))
                         \/ Prop(Prop(plan, "config"), "price").v < 0,
                       Err("Property plan", 0, "price"))
                \o PushIf(NotANumber(Prop(Prop(plan, "config"), "year")),
                          Err("Property plan", 0, "year")))

validateSimulationParams(params) ==
  IF NotAnObject(params) THEN <<Err("Simulation params", 0, "Invalid object")>>
  ELSE ForEach(LAMBDA field, i :
                 PushIf(NotANumber(Prop(params, field)), Err("Simulation params", 0, field)),
               <<"returnRate", "inflationRate", "transitionToHalfWorkYear", "stopWorkYear">>, 1)

validateInitialAge(age) ==
  IF NotANumber(age) THEN <<Err("Initial age", 0, "Invalid value")>>
  ELSE PushIf(age.v < 18 \/ age.v > 80, Err("Initial age", 0, "Must be between 18 and 80"))

\* The version check of validateExportData.
VersionWarnings(d) ==
  IF typeof(Prop(d, "version")) # "string" THEN <<Err("version", 0, "Missing version field")>>
  ELSE PushIf(Prop(d, "version").v # EXPORT_VERSION,
              Err(Prop(d, "version").v, 0, "Version mismatch"))

\* errors.push(...validate(item, i)) over d[key], or the error of a non-array
ValidateArray(d, key, Validate(_, _)) ==
  IF ~isArray(Prop(d, key)) THEN <<Err(key, 0, "must be an array")>>
  ELSE ForEach(Validate, Prop(d, key).items, 1)

ExportDataErrors(d) ==
  (IF Prop(d, "initialAge") # undefined THEN validateInitialAge(Prop(d, "initialAge")) ELSE << >>)
  \o ValidateArray(d, "assets", validateAsset)
  \o ValidateArray(d, "monthlyExpenses", LAMBDA e, i : validateExpense(e, i, "Monthly"))
  \o ValidateArray(d, "yearlyExpenses", LAMBDA e, i : validateExpense(e, i, "Yearly"))
  \o validateSalaryData(Prop(d, "salaryData"))
  \o ValidateArray(d, "equityCompanies", validateEquityCompany)
  \o validatePropertyPlan(Prop(d, "propertyPlan"))
  \o validateSimulationParams(Prop(d, "simulationParams"))

ValidationResult(errors, warnings) ==
  [valid |-> Len(errors) = 0, errors |-> errors, warnings |-> warnings]

validateExportData(data) ==
  IF NotAnObject(data)
  THEN [valid |-> FALSE, errors |-> <<Err("data", 0, "Invalid data format: expected object")>>,
        warnings |-> << >>]
  ELSE ValidationResult(ExportDataErrors(data), VersionWarnings(data))

\* A text is either the JSON text of a value, or not JSON: JSON.parse returns
\* the value or throws a SyntaxError with a message.
JsonText(value) == [syntax |-> "json", value |-> value]

NotJson(message) == [syntax |-> "error", message |-> message]

JSONparse(jsonString) ==
  IF jsonString.syntax = "json"
  THEN [threw |-> FALSE, value |-> jsonString.value]
  ELSE [threw |-> TRUE, message |-> jsonString.message]

\* Mutant: the data is returned whatever the validation says.
importFromJsonUnchecked(jsonString) ==
  IF JSONparse(jsonString).threw
  THEN [data |-> JsonNull,
        validation |-> [valid |-> FALSE,
                        errors |-> <<Err("Invalid JSON", 0, JSONparse(jsonString).message)>>,
                        warnings |-> << >>]]
  ELSE [data |-> JSONparse(jsonString).value,
        validation |-> validateExportData(JSONparse(jsonString).value)]

importFromJsonChecked(parsed, validation) ==
  IF ~validation.valid
  THEN [data |-> JsonNull, validation |-> validation]
  ELSE [data |-> parsed, validation |-> validation]

importFromJson(jsonString) ==
  IF JSONparse(jsonString).threw
  THEN [data |-> JsonNull,
        validation |-> [valid |-> FALSE,
                        errors |-> <<Err("Invalid JSON", 0, JSONparse(jsonString).message)>>,
                        warnings |-> << >>]]
  ELSE importFromJsonChecked(JSONparse(jsonString).value,
                             validateExportData(JSONparse(jsonString).value))

\* The files imported: texts that are not JSON, JSON texts of values that are
\* not objects, and JSON texts of objects whose fields are each valid, invalid
\* or missing.
ValidAsset ==
  JsonObject([id |-> JsonNumber(1), name |-> JsonString("Test"), value |-> JsonNumber(1000),
              type |-> JsonString("liquid")])

ValidExpense == JsonObject([id |-> JsonNumber(1), name |-> JsonString("Rent"), amount |-> JsonNumber(5000)])

ValidSalary ==
  JsonObject([person1Gross |-> JsonNumber(70000), person1Net |-> JsonNumber(35000),
              person2Gross |-> JsonNumber(44000), person2Net |-> JsonNumber(26000)])

ValidContract(startDate) ==
  JsonObject([name |-> JsonString("Grant"), shares |-> JsonNumber(8000), strike |-> JsonNumber(1),
              startDate |-> JsonString(startDate), periodYears |-> JsonNumber(4),
              cliffMonths |-> JsonNumber(12)])

ValidCompany(name, contracts) ==
  JsonObject([id |-> JsonString("c1"), name |-> name, ownerName |-> JsonString("A"),
              color |-> JsonString("indigo"), contracts |-> contracts,
              exitConfig |-> JsonObject([exitYear |-> JsonNumber(2028),
                                         valuationAtExit |-> JsonNumber(1000),
                                         sharePriceAtExit |-> JsonNumber(10)])])

ValidPlan ==
  JsonObject([enabled |-> JsonBoolean(FALSE),
              config |-> JsonObject([price |-> JsonNumber(0), year |-> JsonNumber(2030),
                                     monthlySavings |-> JsonNumber(0)])])

ValidParams ==
  JsonObject([returnRate |-> JsonNumber(6), inflationRate |-> JsonNumber(2),
              transitionToHalfWorkYear |-> JsonNumber(5), stopWorkYear |-> JsonNumber(15)])

Versions == {undefined, JsonString(EXPORT_VERSION), JsonString("0.0.1"), JsonNumber(1)}

InitialAges == {undefined, JsonNumber(34), JsonNumber(17), JsonString("34")}

AssetLists ==
  {undefined, JsonString("not an array"), JsonArray(<< >>), JsonArray(<<ValidAsset>>),
   JsonArray(<<ValidAsset, JsonNull>>),
   JsonArray(<<JsonObject([name |-> JsonString(" "), value |-> JsonString("1000")])>>)}

ExpenseLists ==
  {undefined, JsonArray(<< >>), JsonArray(<<ValidExpense>>),
   JsonArray(<<JsonObject([id |-> JsonNumber(1), name |-> JsonString("Rent"),
                           amount |-> JsonNumber(0 - 5)])>>)}

Salaries == {undefined, ValidSalary, JsonObject([person1Gross |-> JsonNumber(0 - 1)])}

CompanyLists ==
  {JsonArray(<< >>), JsonObject([length |-> JsonNumber(0)]),
   JsonArray(<<ValidCompany(JsonString("Acme"), JsonArray(<<ValidContract("2024-01-01")>>))>>),
   JsonArray(<<ValidCompany(JsonString("Acme"), JsonArray(<<ValidContract("2024-1-1")>>))>>),
   JsonArray(<<ValidCompany(JsonNumber(0), JsonArray(<<JsonNumber(0)>>))>>)}

Plans == {undefined, ValidPlan, JsonObject([enabled |-> JsonBoolean(TRUE)])}

ParamRecords == {JsonNull, ValidParams, JsonObject([returnRate |-> JsonString("6")])}

\* The object with the given values of its fields, those undefined left out.
ObjectOf(all) ==
  JsonObject([key \in {k \in DOMAIN all : all[k] # undefined} |-> all[key]])

ExportObjects ==
  { ObjectOf([version |-> v, initialAge |-> age, assets |-> assets, monthlyExpenses |-> expenses,
              yearlyExpenses |-> JsonArray(<< >>), salaryData |-> salary,
              equityCompanies |-> companies, propertyPlan |-> plan, simulationParams |-> params]) :
      v \in Versions, age \in InitialAges, assets \in AssetLists, expenses \in ExpenseLists,
      salary \in Salaries, companies \in CompanyLists, plan \in Plans, params \in ParamRecords }

JsonStrings ==
  {NotJson("Unexpected token i in JSON at position 2"), NotJson("Unexpected end of JSON input")}
  \cup {JsonText(value) : value \in {JsonNull, JsonNumber(5), JsonString("{}"), JsonBoolean(TRUE),
                                      JsonArray(<< >>)}}
  \cup {JsonText(value) : value \in ExportObjects}

OthersIdleImport ==
  /\ taxCall = Idle /\ vestCall = Idle /\ grossCall = Idle
  /\ simCall = Idle /\ optCall = Idle /\ monoCall = Idle
  /\ app = Idle

InitImport ==
  /\ importCall \in [pc : {"call"}, jsonString : JsonStrings]
  /\ OthersIdleImport

CallImport ==
  /\ importCall.pc = "call"
  /\ importCall' = [pc |-> "returned", jsonString |-> importCall.jsonString,
                     ret |-> importFromJson(importCall.jsonString)]
  /\ UNCHANGED <<taxCall, vestCall, grossCall, simCall, optCall, monoCall, app>>

NextImport == CallImport

SpecImport == InitImport /\ [][NextImport]_vars

\* The value with its version field set to the current version.
CurrentVersion(value) ==
  JsonObject([key \in DOMAIN value.fields \cup {"version"} |->
                IF key = "version" THEN JsonString(EXPORT_VERSION) ELSE value.fields[key]])

-----------------------------------------------------------------------------
(* The phases of a month (SpecSim) *)

\* yearsPassed < transitionToHalfWorkYear and < stopWorkYear in the month
\* just processed.
FullWork(run) ==
  /\ run.month.m < run.params.transitionToHalfWorkYear * 12
  /\ run.month.m < run.params.stopWorkYear * 12

\* C22: in every full-work month the pension balance becomes
\* previous * (1 + monthlyReturn) plus the full monthly pension inflow
\* budgetSummary.totalPensionInflow, and the investable balance becomes
\* previous * (1 + monthlyReturn) + totalIncomeNet - inflated monthly expenses
\* (previous: the balance after the month's equity and property events).
C22_Original ==
  [][(ProcessedMonth /\ FullWork(simCall'.run)) =>
       /\ simCall'.run.curPen =
            Grow(simCall.run.curPen, simCall.run.monthlyReturn)
              + simCall.run.params.budgetSummary.totalPensionInflow
       /\ simCall'.run.curInv =
            Grow(simCall'.run.month.afterEvents.curInv, simCall.run.monthlyReturn)
              + simCall.run.params.budgetSummary.totalIncomeNet
              - simCall'.run.month.monthlyExpenseBase]_vars

\* A full-work month of a household with a pension inflow: the pension has
\* received a twelfth of the inflow, the investments the whole net income
\* less the expenses.
C22_Witness ==
  /\ simCall # Idle
  /\ simCall.run.m > 0
  /\ FullWork(simCall.run)
  /\ simCall.run.params.budgetSummary.totalPensionInflow >= NIS(12)
  /\ simCall.run.curPen =
       Grow(simCall.run.month.before.curPen, simCall.run.monthlyReturn)
         + simCall.run.params.budgetSummary.totalPensionInflow \div 12
  /\ simCall.run.curInv =
       Grow(simCall.run.month.afterEvents.curInv, simCall.run.monthlyReturn)
         + simCall.run.params.budgetSummary.totalIncomeNet
         - simCall.run.month.monthlyExpenseBase

\* The net annuity a balance converts to: gross less the fixed tax.
NetAnnuity(pensionBalance) ==
  calculatePensionAnnuity(pensionBalance)
    - calculatePensionAnnuityTax(calculatePensionAnnuity(pensionBalance))

\* The step processed the month that converted the pension.
Converted == Len(simCall'.hist.conversions) > Len(simCall.hist.conversions)

\* C23: in the month of conversion the net monthly annuity equals
\* (pension balance / 210) * (1 - 0.15), and in each later month it equals the
\* previous month's annuity times the monthly inflation factor, never the
\* investment return; a balance of 2,100,000 gives gross 10,000 and tax 1,500.
C23_Original ==
  /\ [][(ProcessedMonth /\ Converted) =>
          /\ simCall'.run.monthlyAnnuity = NetAnnuity(simCall.run.curPen)
          /\ simCall'.run.month.locals.currentPensionAnnuity = NetAnnuity(simCall.run.curPen)]_vars
  /\ [][(ProcessedMonth /\ simCall.hist.conversions # << >>) =>
          simCall'.run.monthlyAnnuity
            = Grow(simCall.run.monthlyAnnuity, simCall.run.monthlyInflation)]_vars
  /\ [](/\ calculatePensionAnnuity(NIS(2100000)) = NIS(10000)
        /\ calculatePensionAnnuityTax(NIS(10000)) = NIS(1500))

\* The month of a conversion after month 0, with inflation and a return that
\* differs from it: the annuity is the net annuity of the balance times the
\* inflation factor.
C23_Witness ==
  /\ simCall # Idle
  /\ simCall.run.m > 1
  /\ simCall.hist.conversions = <<simCall.run.month.m>>
  /\ simCall.run.monthlyInflation > 0
  /\ simCall.run.monthlyReturn # simCall.run.monthlyInflation
  /\ NetAnnuity(simCall.run.month.before.curPen) > 0
  /\ simCall.run.monthlyAnnuity
       = Grow(NetAnnuity(simCall.run.month.before.curPen), simCall.run.monthlyInflation)
  /\ simCall.run.monthlyAnnuity > NetAnnuity(simCall.run.month.before.curPen)

\* yearsPassed >= stopWorkYear and curAge < 60 in the month just processed.
EarlyRetired(run) == ~Working(run) /\ ~Past60(run)

\* The investable balance of the month just processed after its return.
GrownInv(run) == Grow(run.month.afterEvents.curInv, run.monthlyReturn)

\* C24: in every early-retirement month the investable balance is drawn
\* first: if, grown by the return, it covers the inflated desired withdrawal,
\* the withdrawal is taken from it, the pension changes only by the return and
\* withdrawalFromPension is 0; otherwise it ends the month at 0 and the pension
\* is debited by a twelfth of calculateGrossForDesiredNet(12 * shortfall),
\* the shortfall being the desired withdrawal less the amount taken from the
\* investments.
C24_InvestmentsFirst ==
  [][(ProcessedMonth /\ EarlyRetired(simCall'.run)) =>
       /\ simCall'.run.month.desiredWithdrawal
            = Inflate(simCall.run.targetWithdrawal, simCall.run.monthlyInflation, simCall.run.m)
       /\ IF GrownInv(simCall'.run) >= simCall'.run.month.desiredWithdrawal
          THEN /\ simCall'.run.month.locals.withdrawalFromInvestments
                    = simCall'.run.month.desiredWithdrawal
               /\ simCall'.run.curInv
                    = GrownInv(simCall'.run) - simCall'.run.month.desiredWithdrawal
               /\ simCall'.run.curPen = Grow(simCall.run.curPen, simCall.run.monthlyReturn)
               /\ simCall'.run.month.locals.withdrawalFromPension = 0
          ELSE /\ simCall'.run.month.locals.withdrawalFromInvestments
                    = Max(0, GrownInv(simCall'.run))
               /\ simCall'.run.curInv = 0
               /\ simCall'.run.month.locals.withdrawalFromPension
                    = calculateGrossForDesiredNet(
                        12 * (simCall'.run.month.desiredWithdrawal
                                - simCall'.run.month.locals.withdrawalFromInvestments), 0) \div 12
               /\ simCall'.run.curPen
                    = Grow(simCall.run.curPen, simCall.run.monthlyReturn)
                        - simCall'.run.month.locals.withdrawalFromPension]_vars

\* An early-retirement month, with inflation, in which the investments cover
\* a part of the withdrawal and the pension the rest.
C24_Witness ==
  /\ simCall # Idle
  /\ simCall.run.m > 1
  /\ EarlyRetired(simCall.run)
  /\ simCall.run.monthlyInflation > 0
  /\ simCall.run.month.desiredWithdrawal > simCall.run.targetWithdrawal
  /\ simCall.run.month.locals.withdrawalFromInvestments > 0
  /\ simCall.run.month.locals.withdrawalFromPension
       > simCall.run.month.desiredWithdrawal
           - simCall.run.month.locals.withdrawalFromInvestments
  /\ simCall.run.curInv = 0
  /\ simCall.run.curPen > 0

\* C25: the monthly savings of the property are subtracted from the expense
\* base in exactly the months from the purchase month onward: in no month
\* before the purchase has debited the liquid balance in that run, runs in
\* which the purchase never takes place included, is the expense base reduced
\* by monthlySavings.
C25_Original ==
  [][ProcessedMonth =>
       simCall'.run.month.monthlyExpenseBase =
         Inflate(IF simCall'.hist.purchases # << >>
                 THEN simCall.run.totalMonthlyExpenses - simCall.run.monthlySavingsAfterProperty
                 ELSE simCall.run.totalMonthlyExpenses,
                 simCall.run.monthlyInflation, simCall.run.m)]_vars

\* A month of the run whose purchase year is 2025: nothing was bought, the
\* investments were never debited and no property is held, and the expense
\* base is reduced by the savings.
C25_Witness ==
  /\ simCall # Idle
  /\ simCall.run.params = PurchaseYear2025
  /\ simCall.run.m > 12
  /\ simCall.hist.purchases = << >>
  /\ simCall.run.propValue = 0
  /\ simCall.run.month.ownsProp
  /\ simCall.run.month.monthlyExpenseBase
       = simCall.run.totalMonthlyExpenses - simCall.run.params.propertyConfig.monthlySavings

-----------------------------------------------------------------------------
(* The value findOptimalWithdrawal returns (SpecOpt) *)

\* C26 as stated: the value returned is either exactly 0 or lies strictly
\* between 5000 and 500000, and during the search the best value found is
\* always either 0 or equal to the current lower bound.
C26_Original ==
  /\ optCall.pc = "returned" =>
       optCall.val = 0 \/ (optCall.val > OptLow /\ optCall.val < OptHigh)
  /\ optCall.bestVal \in {NoBest, optCall.low}

\* C26: the best value found is either 0 or equal to the current lower bound,
\* and then lies strictly between 5000 and 500000; the value returned is the
\* best value rounded: either exactly 0, when no candidate passed, or from
\* 5000 to 500000, both included.
C26_ValRange ==
  /\ optCall.bestVal = NoBest
       \/ (optCall.bestVal = optCall.low /\ optCall.bestVal > 0 /\ optCall.bestVal < OptScale)
  /\ optCall.bestVal = NoBest => optCall.low = 0
  /\ optCall.pc = "returned" =>
       /\ optCall.val = OptRound(optCall.bestVal)
       /\ optCall.val = 0 <=> optCall.bestVal = NoBest
       /\ optCall.val = 0 \/ (optCall.val >= OptLow /\ optCall.val <= OptHigh)

\* A search in which every candidate passed has returned 500000.
C26_Witness ==
  /\ optCall.pc = "returned"
  /\ optCall.bestVal = OptScale - 1
  /\ optCall.val = OptHigh

\* A search whose passing candidates are all below 5000.04 has returned 5000.
C26_Returns5000 ==
  /\ optCall.pc = "returned"
  /\ optCall.bestVal > 0
  /\ optCall.val = OptLow

-----------------------------------------------------------------------------
(* Balances in and after early retirement (SpecSim) *)

\* C27: in every early-retirement month the withdrawal step never increases
\* the investable balance: at the end of the month's phase step it is at most
\* what it was right after that month's return, so a negative investable
\* balance (debt left by a property purchase or a working-phase deficit) is
\* never reset upward.
C27_Original ==
  [][(ProcessedMonth /\ EarlyRetired(simCall'.run)) =>
       simCall'.run.curInv <= GrownInv(simCall'.run)]_vars

\* The first early-retirement month after a purchase beyond the household's
\* means: the investable balance entered the month negative and leaves it 0,
\* nothing having been paid into it.
C27_Witness ==
  /\ simCall # Idle
  /\ simCall.run.m > 0
  /\ EarlyRetired(simCall.run)
  /\ simCall.run.month.afterEvents.curInv < 0
  /\ GrownInv(simCall.run) < 0
  /\ simCall.run.month.locals.income = 0
  /\ simCall.run.month.locals.withdrawalFromInvestments = 0
  /\ simCall.run.curInv = 0

\* C28: at every month of every run the pension balance is >= 0: an
\* early-retirement withdrawal never debits more from the pension than the
\* pension balance holds.
C28_Original ==
  simCall # Idle =>
    /\ simCall.run.curPen >= 0
    /\ (simCall.run.m > 0 /\ EarlyRetired(simCall.run)) =>
         simCall.run.month.locals.withdrawalFromPension
           <= Grow(simCall.run.month.before.curPen, simCall.run.monthlyReturn)

\* An early-retirement month that took from the pension more than it held:
\* the balance is negative, and the snapshot of the month reports 0.
C28_Witness ==
  /\ simCall # Idle
  /\ simCall.run.m > 0
  /\ EarlyRetired(simCall.run)
  /\ simCall.run.month.before.curPen >= 0
  /\ simCall.run.month.locals.withdrawalFromPension
       > Grow(simCall.run.month.before.curPen, simCall.run.monthlyReturn)
  /\ simCall.run.curPen < 0
  /\ simCall.run.data[Len(simCall.run.data)].index = simCall.run.month.m
  /\ simCall.run.data[Len(simCall.run.data)].pension = 0

\* The snapshots emitted so far.
Snapshots == { simCall.run.data[j] : j \in 1..Len(simCall.run.data) }

Within1(x, y) == x - y \in {0 - 1, 0, 1}

\* C29: in every emitted snapshot all reported balances are >= 0 and
\* consistent with each other: liquidWealth = investments + pension and
\* totalLegacy = liquidWealth + property, each up to rounding of 1 unit.
C29_Original ==
  simCall # Idle =>
    \A p \in Snapshots :
      /\ p.totalLegacy >= 0 /\ p.liquidWealth >= 0 /\ p.investments >= 0
      /\ p.pension >= 0 /\ p.property >= 0
      /\ Within1(p.liquidWealth, p.investments + p.pension)
      /\ Within1(p.totalLegacy, p.liquidWealth + p.property)

\* A snapshot taken while the investable balance is negative: it reports
\* investments 0, a positive pension, and a liquid wealth below the pension.
C29_Witness ==
  /\ simCall # Idle
  /\ simCall.run.m > 0
  /\ simCall.run.curInv < 0
  /\ simCall.run.curPen > 0
  /\ \E p \in Snapshots :
       /\ p.index = simCall.run.month.m
       /\ p.investments = 0
       /\ p.pension = RoundNIS(simCall.run.curPen)
       /\ p.liquidWealth = RoundNIS(Max(0, simCall.run.curInv + simCall.run.curPen))
       /\ p.liquidWealth < p.pension - 1
       /\ Within1(p.totalLegacy, p.liquidWealth + p.property)

-----------------------------------------------------------------------------
(* The order of the phases (SpecSim) *)

\* The branch the month just processed took, read from the income source it
\* set: 1 full work, 2 half work, 3 retired before 60, 4 retired from 60.
Branch(run) ==
  CASE run.month.locals.source[1] = "full salary" -> 1
    [] run.month.locals.source[1] = "half time" -> 2
    [] run.month.locals.source[1] \in {"investments", "capital + pension"} -> 3
    [] run.month.locals.source[1] \in {"annuity", "annuity + investments"} -> 4

\* C30: within one run the phase never moves backwards as months advance:
\* the months form consecutive blocks in the order full work, half work,
\* early retirement (age < 60), retirement (age >= 60); once a month is in a
\* retirement phase no later month is a working month, and once the
\* age >= 60 branch is taken no later month takes the early-retirement branch.
C30_PhasesInOrder ==
  /\ [][(ProcessedMonth /\ simCall.run.m > 0) =>
          Branch(simCall'.run) >= Branch(simCall.run)]_vars
  /\ [][ProcessedMonth =>
          /\ Branch(simCall'.run) <= 2 <=> Working(simCall'.run)
          /\ Branch(simCall'.run) = 1 <=> FullWork(simCall'.run)
          /\ Branch(simCall'.run) = 4 <=> (~Working(simCall'.run) /\ Past60(simCall'.run))]_vars

\* A run that has gone through the four phases, a year in each: its
\* snapshots of months 0, 12, 24 and 36.
C30_Witness ==
  /\ simCall # Idle
  /\ simCall.run.m > 36
  /\ Branch(simCall.run) = 4
  /\ \E p1, p2, p3, p4 \in Snapshots :
       /\ p1.index = 11 /\ p1.incomeSource[1] = "full salary"
       /\ p2.index = 12 /\ p2.incomeSource[1] = "half time"
       /\ p3.index = 24 /\ p3.incomeSource[1] \in {"investments", "capital + pension"}
       /\ p4.index = 36 /\ p4.incomeSource[1] \in {"annuity", "annuity + investments"}

====
